---- MODULE Spec2Model ----
(***************************************************************************)
(* Model of the boardy-api request handlers and of the relational store    *)
(* they talk to.  The store is the only shared state; every handler is a   *)
(* sequence of store calls, one atomic step per awaited call, followed by  *)
(* the synchronous code that runs until the next await.                    *)
(***************************************************************************)
EXTENDS Integers, Sequences, FiniteSets, TLC

(***************************************************************************)
(* Strings.  An email is a sequence of one-character strings, so that      *)
(* trim() and toLowerCase() are computed and not assumed.                  *)
(***************************************************************************)
E(c) == <<c, "@", "x">>

IsSpace(c) == c = " "

LowerChar(c) ==
  CASE c = "A" -> "a"
    [] c = "B" -> "b"
    [] c = "C" -> "c"
    [] OTHER -> c

ToLowerCase(s) == [i \in 1..Len(s) |-> LowerChar(s[i])]

RECURSIVE TrimStart(_)
TrimStart(s) == IF s # <<>> /\ IsSpace(Head(s)) THEN TrimStart(Tail(s)) ELSE s

RECURSIVE TrimEnd(_)
TrimEnd(s) ==
  IF s # <<>> /\ IsSpace(s[Len(s)]) THEN TrimEnd(SubSeq(s, 1, Len(s) - 1)) ELSE s

Trim(s) == TrimEnd(TrimStart(s))

\* e.trim().toLowerCase()
NormalizeEmail(e) == ToLowerCase(Trim(e))

\* Array.from(new Set(list)): first occurrences, in order.
RECURSIVE DedupeFrom(_, _, _)
DedupeFrom(s, i, acc) ==
  IF i > Len(s) THEN acc
  ELSE DedupeFrom(s, i + 1,
         IF \E j \in 1..Len(acc) : acc[j] = s[i] THEN acc ELSE Append(acc, s[i]))

ArrayFromSet(s) == DedupeFrom(s, 1, <<>>)

IsNonEmpty(e) == e # <<>>

\* Array.from(new Set(raw.map(e => e.trim().toLowerCase()).filter(Boolean)))
CleanEmails(raw) ==
  ArrayFromSet(SelectSeq([i \in 1..Len(raw) |-> NormalizeEmail(raw[i])], IsNonEmpty))

Range(s) == {s[i] : i \in 1..Len(s)}

(***************************************************************************)
(* Bounds and input domains.                                               *)
(***************************************************************************)
MaxProjects == 2
MaxMemberRows == 3
MaxTasks == 2
MaxAssignments == 2
MaxRequests == 3
MaxUsers == 2

Users == {1, 2}
NULL == 0

\* Time is counted in ticks of six hours since the epoch, UTC; a DATE column
\* holds a day number.  The server's zone is its offset from UTC in ticks.
TicksPerDay == 4
Day0 == 20

\* What the request bodies of a run may carry: raw member_email strings, raw
\* memberEmails arrays, owner_id values and role values ("" for an absent role).
Inputs ==
  [emails |-> {E("A"), <<" ", "b", "@", "x", " ">>, E("c"), <<>>},
   lists |-> {<<E("a"), E("a"), E("B")>>, <<E("b"), E("c")>>, <<<<" ">>>>, <<>>},
   owners |-> Users,
   addRoles |-> {"", "admin", "editor"},
   newRoles |-> {"", "owner", "viewer"},
   assignees |-> {<<>>, <<2>>, <<1, 1>>},
   spans |-> {<<Day0, Day0>>},
   dues |-> {Day0},
   clocks |-> {Day0 * TicksPerDay},
   ranges |-> {<<>>}]

\* The bodies of the runs that interleave two requests.
RaceInputs ==
  [emails |-> {E("A"), E("a"), E("c")},
   lists |-> {<<E("c"), E("A")>>},
   owners |-> {1},
   addRoles |-> {""},
   newRoles |-> {"viewer"},
   assignees |-> {<<>>},
   spans |-> {<<Day0, Day0>>},
   dues |-> {Day0},
   clocks |-> {Day0 * TicksPerDay},
   ranges |-> {<<>>}]

VARIABLES
  users,        \* rows of table users
  projects,     \* rows of table projects
  members,      \* rows of table project_members
  tasks,        \* rows of table tasks
  assignments,  \* rows of table task_assignments
  serial,       \* the store's sequences: next project uuid and next row ids
  req,          \* the requests in flight, one per slot
  started,      \* number of requests started so far
  zone          \* the time zone of the server process

vars == <<users, projects, members, tasks, assignments, serial, req, started, zone>>

Slots == {1, 2}

Idle ==
  [h |-> "none", pc |-> "idle", uid |-> 0, p |-> 0, t |-> 0, mid |-> 0,
   target |-> 0, owner |-> 0, raw |-> <<>>, hasRaw |-> FALSE, role |-> "",
   uuids |-> {}, fields |-> FALSE, auth |-> "none", clean |-> <<>>,
   found |-> {}, existing |-> {}, fresh |-> <<>>, newp |-> 0, assign |-> <<>>,
   hasAssign |-> FALSE, vis |-> <<>>, list |-> <<>>, total |-> 0, out |-> {},
   invite |-> {}, sent |-> {}, bounced |-> {}, span |-> <<0, 0>>, due |-> 0,
   now |-> 0, range |-> <<>>, completed |-> 0, team |-> 0, recent |-> <<>>,
   upcoming |-> <<>>, stats |-> 0, projs |-> <<>>, assigned |-> <<>>,
   cal |-> <<>>, ids |-> {}, mails |-> {}, summary |-> <<>>, emailsSent |-> 0,
   sub |-> "", clerk |-> "", before |-> {},
   err |-> "",
   status |-> 0]

Free(r) == req[r].pc \in {"idle", "done"}

\* A request leaves the handler with an HTTP status.
Respond(r, code) == [req[r] EXCEPT !.pc = "done", !.status = code]

\* A store call of the request returned an error: err names the call.
Failed(r, rec) == [rec EXCEPT !.err = req[r].pc]

\* A request is accepted by the router for an authenticated user.
Begin(r, rec) ==
  /\ Free(r)
  /\ \A q \in Slots : q < r => ~Free(q)
  /\ started < MaxRequests
  /\ started' = started + 1
  /\ req' = [req EXCEPT ![r] = rec]

\* Project uuids issued so far: the ones a client can know.
KnownProjects == 1..(serial.project - 1)
KnownTasks == 1..(serial.task - 1)

(***************************************************************************)
(* Store queries.                                                          *)
(***************************************************************************)
\* .single(): the row when the query matches exactly one row, else null.
Single(rows) == IF Cardinality(rows) = 1 THEN rows ELSE {}

ProjectByUuid(uuid) == {p \in projects : p.project_uuid = uuid}
MembersOf(uuid) == {m \in members : m.project_uuid = uuid}
MemberEmailsOf(uuid) == {m.member_email : m \in MembersOf(uuid)}

\* users rows whose email is one of the given emails: .in("email", emails)
UsersByEmail(emails) == {u \in users : u.email \in emails}

\* foundByEmail.get(email) || null, on the rows a lookup returned
FoundUserId(rows, email) ==
  IF \E u \in rows : ToLowerCase(u.email) = email
  THEN (CHOOSE u \in rows : ToLowerCase(u.email) = email).user_id
  ELSE NULL

\* the rows a batch insert of the given emails adds to project_members
MemberRows(uuid, emails, found, role) ==
  { [id |-> serial.member + i - 1, project_uuid |-> uuid,
     user_id |-> FoundUserId(found, emails[i]), member_email |-> emails[i],
     role |-> role] : i \in 1..Len(emails) }

\* delete from projects: the store's foreign keys cascade to the project's
\* members, tasks and their assignments.
CascadeDelete(uuids) ==
  /\ projects' = {p \in projects : p.project_uuid \notin uuids}
  /\ members' = {m \in members : m.project_uuid \notin uuids}
  /\ tasks' = {t \in tasks : t.project_uuid \notin uuids}
  /\ assignments' =
       {a \in assignments :
          \A t \in tasks : t.task_id = a.task_id => t.project_uuid \notin uuids}

Init ==
  /\ users = {[user_id |-> 1, clerk_user_id |-> "c1", email |-> E("a")],
              [user_id |-> 2, clerk_user_id |-> "c2", email |-> E("b")]}
  /\ projects = {}
  /\ members = {}
  /\ tasks = {}
  /\ assignments = {}
  /\ serial = [project |-> 1, member |-> 1, task |-> 1, assign |-> 1, user |-> 3]
  /\ req = [r \in Slots |-> Idle]
  /\ started = 0
  /\ zone = 0

(***************************************************************************)
(* createProject (projects controller)                                     *)
(***************************************************************************)
createProject_start(r, D) ==
  \E u \in Users, o \in D.owners, hasRaw \in BOOLEAN, raw \in D.lists,
     span \in D.spans :
    /\ hasRaw \/ raw = <<>>
    /\ Begin(r, [Idle EXCEPT !.h = "createProject", !.pc = "insertProject",
                             !.uid = u, !.owner = o, !.hasRaw = hasRaw, !.raw = raw,
                             !.span = span,
                             !.clean = IF hasRaw THEN CleanEmails(raw) ELSE <<>>])
    /\ UNCHANGED <<zone, users, projects, members, tasks, assignments, serial>>

\* insert into projects of the body without memberEmails; the store fails or
\* returns the new row with its generated uuid.
createProject_insertProject(r) ==
  /\ req[r].h = "createProject" /\ req[r].pc = "insertProject"
  /\ \E fail \in BOOLEAN :
       IF fail
       THEN /\ req' = [req EXCEPT ![r] = Failed(r, Respond(r, 400))]
            /\ UNCHANGED <<projects, serial>>
       ELSE /\ serial.project <= MaxProjects
            /\ projects' = projects \cup
                 {[project_uuid |-> serial.project, owner_id |-> req[r].owner,
                   start_date |-> req[r].span[1], end_date |-> req[r].span[2]]}
            /\ serial' = [serial EXCEPT !.project = @ + 1]
            /\ req' = [req EXCEPT ![r] =
                 IF req[r].clean = <<>>
                 THEN [Respond(r, 201) EXCEPT !.newp = serial.project]
                 ELSE [req[r] EXCEPT !.pc = "lookupUsers", !.newp = serial.project]]
  /\ UNCHANGED <<zone, users, members, tasks, assignments, started>>

\* batch lookup of the users behind the emails; on a store error the handler
\* goes on to compensate.
createProject_lookupUsers(r) ==
  /\ req[r].h = "createProject" /\ req[r].pc = "lookupUsers"
  /\ \E fail \in BOOLEAN :
       req' = [req EXCEPT ![r] =
         IF fail THEN Failed(r, [req[r] EXCEPT !.pc = "compensate"])
         ELSE [req[r] EXCEPT !.pc = "insertMembers",
                             !.found = UsersByEmail(Range(req[r].clean))]]
  /\ UNCHANGED <<zone, users, projects, members, tasks, assignments, serial, started>>

\* a member insert whose failure is answered without the compensating delete
createProject_insertMembersUncompensated(r) ==
  /\ req[r].h = "createProject" /\ req[r].pc = "insertMembers"
  /\ \E fail \in BOOLEAN :
       IF fail \/ ProjectByUuid(req[r].newp) = {}
       THEN /\ req' = [req EXCEPT ![r] = Failed(r, Respond(r, 400))]
            /\ UNCHANGED <<members, serial>>
       ELSE /\ serial.member + Len(req[r].clean) - 1 <= MaxMemberRows
            /\ members' = members \cup
                 MemberRows(req[r].newp, req[r].clean, req[r].found, "viewer")
            /\ serial' = [serial EXCEPT !.member = @ + Len(req[r].clean)]
            /\ req' = [req EXCEPT ![r].pc = "inviter"]
  /\ UNCHANGED <<zone, users, projects, tasks, assignments, started>>

createProject_insertMembers(r) ==
  /\ req[r].h = "createProject" /\ req[r].pc = "insertMembers"
  /\ \E fail \in BOOLEAN :
       IF fail \/ ProjectByUuid(req[r].newp) = {}
       THEN /\ req' = [req EXCEPT ![r] = Failed(r, [req[r] EXCEPT !.pc = "compensate"])]
            /\ UNCHANGED <<members, serial>>
       ELSE /\ serial.member + Len(req[r].clean) - 1 <= MaxMemberRows
            /\ members' = members \cup
                 MemberRows(req[r].newp, req[r].clean, req[r].found, "viewer")
            /\ serial' = [serial EXCEPT !.member = @ + Len(req[r].clean)]
            /\ req' = [req EXCEPT ![r].pc = "inviter"]
  /\ UNCHANGED <<zone, users, projects, tasks, assignments, started>>

\* the inviter's name is read, the invitations are handed to the mail service
\* without awaiting them, and the request is answered
createProject_inviter(r) ==
  /\ req[r].h = "createProject" /\ req[r].pc = "inviter"
  /\ req' = [req EXCEPT ![r] = [Respond(r, 201) EXCEPT !.invite = Range(req[r].clean)]]
  /\ UNCHANGED <<zone, users, projects, members, tasks, assignments, serial, started>>

\* await supabase.from("projects").delete().eq("project_uuid", projectUuid):
\* the result of the delete is not looked at; 400 is returned either way.
createProject_compensate(r) ==
  /\ req[r].h = "createProject" /\ req[r].pc = "compensate"
  /\ \E fail \in BOOLEAN :
       IF fail
       THEN /\ UNCHANGED <<projects, members, tasks, assignments>>
            /\ req' = [req EXCEPT ![r] = Failed(r, Respond(r, 400))]
       ELSE /\ CascadeDelete({req[r].newp})
            /\ req' = [req EXCEPT ![r] = Respond(r, 400)]
  /\ UNCHANGED <<zone, users, serial, started>>

(***************************************************************************)
(* Members controller: the owner-or-admin permission check shared by       *)
(* addProjectMember, updateProjectMember, removeProjectMember and          *)
(* bulkAddProjectMembers.                                                  *)
(***************************************************************************)
IsOwner(project, userId) == \E p \in project : p.owner_id = userId

\* a role test that lets every member row through
NotMember(member) == member = {}

\* !member || (member.role !== "admin" && member.role !== "owner")
NotAdmin(member) == member = {} \/ \E m \in member : m.role \notin {"admin", "owner"}

\* the project read: 404 without a project, the owner goes on, anyone else
\* goes to the role lookup
PermissionProject(r, next) ==
  LET project == Single(ProjectByUuid(req[r].p)) IN
  IF project = {} THEN [Respond(r, 404) EXCEPT !.auth = "notfound"]
  ELSE IF IsOwner(project, req[r].uid) THEN [next EXCEPT !.auth = "granted"]
  ELSE [req[r] EXCEPT !.pc = "admin"]

\* a role lookup whose denial does not stop the handler
PermissionAdminIgnored(r, next) ==
  LET member == Single({m \in MembersOf(req[r].p) : m.user_id = req[r].uid}) IN
  IF member = {} \/ \E m \in member : m.role \notin {"admin", "owner"}
  THEN [next EXCEPT !.auth = "denied"]
  ELSE [next EXCEPT !.auth = "granted"]

\* the role lookup: .eq("project_uuid").eq("user_id").single()
PermissionAdmin(r, next) ==
  LET member == Single({m \in MembersOf(req[r].p) : m.user_id = req[r].uid}) IN
  IF NotAdmin(member) THEN [Respond(r, 403) EXCEPT !.auth = "denied"]
  ELSE [next EXCEPT !.auth = "granted"]

(***************************************************************************)
(* addProjectMember (members controller)                                   *)
(***************************************************************************)
addProjectMember_start(r, D) ==
  \E u \in Users, p \in KnownProjects, raw \in D.emails, role \in D.addRoles :
    /\ Begin(r, [Idle EXCEPT !.h = "addProjectMember", !.pc = "project", !.uid = u,
                             !.p = p, !.raw = <<raw>>, !.role = role])
    /\ UNCHANGED <<zone, users, projects, members, tasks, assignments, serial>>

\* body.member_email.trim().toLowerCase()
MemberEmail(r) == NormalizeEmail(req[r].raw[1])

addProjectMember_project(r) ==
  /\ req[r].h = "addProjectMember" /\ req[r].pc = "project"
  /\ \E fail \in BOOLEAN :
       req' = [req EXCEPT ![r] =
       IF req[r].raw[1] = <<>> THEN Respond(r, 400)
       ELSE IF fail THEN Failed(r, [Respond(r, 404) EXCEPT !.auth = "notfound"])
       ELSE PermissionProject(r, [req[r] EXCEPT !.pc = "existing"])]
  /\ UNCHANGED <<zone, users, projects, members, tasks, assignments, serial, started>>

addProjectMember_admin(r) ==
  /\ req[r].h = "addProjectMember" /\ req[r].pc = "admin"
  /\ \E fail \in BOOLEAN :
       req' = [req EXCEPT ![r] =
       IF fail THEN Failed(r, [Respond(r, 403) EXCEPT !.auth = "denied"])
       ELSE PermissionAdmin(r, [req[r] EXCEPT !.pc = "existing"])]
  /\ UNCHANGED <<zone, users, projects, members, tasks, assignments, serial, started>>

\* .eq("project_uuid").eq("member_email", memberEmail).single(); if (existing) 409
ExistingMember(uuid, email) == Single({m \in MembersOf(uuid) : m.member_email = email})

addProjectMember_existing(r) ==
  /\ req[r].h = "addProjectMember" /\ req[r].pc = "existing"
  /\ req' = [req EXCEPT ![r] =
       IF ExistingMember(req[r].p, MemberEmail(r)) # {} THEN Respond(r, 409)
       ELSE [req[r] EXCEPT !.pc = "user"]]
  /\ UNCHANGED <<zone, users, projects, members, tasks, assignments, serial, started>>

\* users .eq("email", memberEmail).single()
addProjectMember_user(r) ==
  /\ req[r].h = "addProjectMember" /\ req[r].pc = "user"
  /\ req' = [req EXCEPT ![r] =
       [req[r] EXCEPT !.pc = "insert", !.found = Single(UsersByEmail({MemberEmail(r)}))]]
  /\ UNCHANGED <<zone, users, projects, members, tasks, assignments, serial, started>>

\* user?.user_id || null
UserIdOrNull(user) == IF user = {} THEN NULL ELSE (CHOOSE u \in user : TRUE).user_id

addProjectMember_insert(r) ==
  /\ req[r].h = "addProjectMember" /\ req[r].pc = "insert"
  /\ \E fail \in BOOLEAN :
       IF fail \/ ProjectByUuid(req[r].p) = {}
       THEN /\ req' = [req EXCEPT ![r] = Failed(r, Respond(r, 400))]
            /\ UNCHANGED <<members, serial>>
       ELSE /\ serial.member <= MaxMemberRows
            /\ members' = members \cup
                 {[id |-> serial.member, project_uuid |-> req[r].p,
                   user_id |-> UserIdOrNull(req[r].found),
                   member_email |-> MemberEmail(r),
                   role |-> IF req[r].role = "" THEN "viewer" ELSE req[r].role]}
            /\ serial' = [serial EXCEPT !.member = @ + 1]
            /\ req' = [req EXCEPT ![r] =
                 IF req[r].found = {} THEN [req[r] EXCEPT !.pc = "inviter"]
                 ELSE Respond(r, 201)]
  /\ UNCHANGED <<zone, users, projects, tasks, assignments, started>>

\* if (!user): the inviter's name is read and the invitation is handed to the
\* mail service without awaiting it
addProjectMember_inviter(r) ==
  /\ req[r].h = "addProjectMember" /\ req[r].pc = "inviter"
  /\ req' = [req EXCEPT ![r] = [Respond(r, 201) EXCEPT !.invite = {MemberEmail(r)}]]
  /\ UNCHANGED <<zone, users, projects, members, tasks, assignments, serial, started>>

(***************************************************************************)
(* updateProjectMember and removeProjectMember (members controller)        *)
(***************************************************************************)
MemberIds == 1..MaxMemberRows

updateProjectMember_start(r, D) ==
  \E u \in Users, p \in KnownProjects, mid \in MemberIds, role \in D.newRoles :
    /\ Begin(r, [Idle EXCEPT !.h = "updateProjectMember", !.pc = "project", !.uid = u,
                             !.p = p, !.mid = mid, !.role = role])
    /\ UNCHANGED <<zone, users, projects, members, tasks, assignments, serial>>

updateProjectMember_project(r) ==
  /\ req[r].h = "updateProjectMember" /\ req[r].pc = "project"
  /\ \E fail \in BOOLEAN :
       req' = [req EXCEPT ![r] =
       IF req[r].role = "" THEN Respond(r, 400)
       ELSE IF fail THEN Failed(r, [Respond(r, 404) EXCEPT !.auth = "notfound"])
       ELSE PermissionProject(r, [req[r] EXCEPT !.pc = "member"])]
  /\ UNCHANGED <<zone, users, projects, members, tasks, assignments, serial, started>>

updateProjectMember_admin(r) ==
  /\ req[r].h = "updateProjectMember" /\ req[r].pc = "admin"
  /\ \E fail \in BOOLEAN :
       req' = [req EXCEPT ![r] =
       IF fail THEN Failed(r, [Respond(r, 403) EXCEPT !.auth = "denied"])
       ELSE PermissionAdmin(r, [req[r] EXCEPT !.pc = "member"])]
  /\ UNCHANGED <<zone, users, projects, members, tasks, assignments, serial, started>>

\* .eq("id", memberId).eq("project_uuid", projectUuid).single()
MemberById(uuid, memberId) == Single({m \in MembersOf(uuid) : m.id = memberId})

updateProjectMember_member(r) ==
  /\ req[r].h = "updateProjectMember" /\ req[r].pc = "member"
  /\ req' = [req EXCEPT ![r] =
       IF MemberById(req[r].p, req[r].mid) = {} THEN Respond(r, 404)
       ELSE [req[r] EXCEPT !.pc = "update"]]
  /\ UNCHANGED <<zone, users, projects, members, tasks, assignments, serial, started>>

\* .update({ role }).eq("id", memberId).select().single(): an error when the
\* store fails or when no row carries the id any more
updateProjectMember_update(r) ==
  /\ req[r].h = "updateProjectMember" /\ req[r].pc = "update"
  /\ \E fail \in BOOLEAN :
       IF fail \/ ~\E m \in members : m.id = req[r].mid
       THEN /\ req' = [req EXCEPT ![r] = Failed(r, Respond(r, 400))]
            /\ UNCHANGED members
       ELSE /\ members' = {IF m.id = req[r].mid THEN [m EXCEPT !.role = req[r].role]
                           ELSE m : m \in members}
            /\ req' = [req EXCEPT ![r] = Respond(r, 200)]
  /\ UNCHANGED <<zone, users, projects, tasks, assignments, serial, started>>

removeProjectMember_start(r, D) ==
  \E u \in Users, p \in KnownProjects, mid \in MemberIds :
    /\ Begin(r, [Idle EXCEPT !.h = "removeProjectMember", !.pc = "project", !.uid = u,
                             !.p = p, !.mid = mid])
    /\ UNCHANGED <<zone, users, projects, members, tasks, assignments, serial>>

removeProjectMember_project(r) ==
  /\ req[r].h = "removeProjectMember" /\ req[r].pc = "project"
  /\ \E fail \in BOOLEAN :
       req' = [req EXCEPT ![r] =
       IF fail THEN Failed(r, [Respond(r, 404) EXCEPT !.auth = "notfound"])
       ELSE PermissionProject(r, [req[r] EXCEPT !.pc = "member"])]
  /\ UNCHANGED <<zone, users, projects, members, tasks, assignments, serial, started>>

removeProjectMember_admin(r) ==
  /\ req[r].h = "removeProjectMember" /\ req[r].pc = "admin"
  /\ \E fail \in BOOLEAN :
       req' = [req EXCEPT ![r] =
       IF fail THEN Failed(r, [Respond(r, 403) EXCEPT !.auth = "denied"])
       ELSE PermissionAdmin(r, [req[r] EXCEPT !.pc = "member"])]
  /\ UNCHANGED <<zone, users, projects, members, tasks, assignments, serial, started>>

removeProjectMember_member(r) ==
  /\ req[r].h = "removeProjectMember" /\ req[r].pc = "member"
  /\ req' = [req EXCEPT ![r] =
       IF MemberById(req[r].p, req[r].mid) = {} THEN Respond(r, 404)
       ELSE [req[r] EXCEPT !.pc = "delete"]]
  /\ UNCHANGED <<zone, users, projects, members, tasks, assignments, serial, started>>

\* .delete().eq("id", memberId).eq("project_uuid", projectUuid)
removeProjectMember_delete(r) ==
  /\ req[r].h = "removeProjectMember" /\ req[r].pc = "delete"
  /\ \E fail \in BOOLEAN :
       IF fail
       THEN /\ req' = [req EXCEPT ![r] = Failed(r, Respond(r, 400))]
            /\ UNCHANGED members
       ELSE /\ members' = {m \in members :
                             ~(m.id = req[r].mid /\ m.project_uuid = req[r].p)}
            /\ req' = [req EXCEPT ![r] = Respond(r, 200)]
  /\ UNCHANGED <<zone, users, projects, tasks, assignments, serial, started>>

(***************************************************************************)
(* bulkAddProjectMembers (members controller)                              *)
(***************************************************************************)
bulkAddProjectMembers_start(r, D) ==
  \E u \in Users, p \in KnownProjects, hasRaw \in BOOLEAN, raw \in D.lists,
     role \in {""} :
    /\ hasRaw \/ raw = <<>>
    /\ Begin(r, [Idle EXCEPT !.h = "bulkAddProjectMembers", !.pc = "project",
                             !.uid = u, !.p = p, !.hasRaw = hasRaw, !.raw = raw,
                             !.role = role])
    /\ UNCHANGED <<zone, users, projects, members, tasks, assignments, serial>>

\* after the permission check: clean and deduplicate, 400 when nothing is left
BulkClean(r) ==
  IF CleanEmails(req[r].raw) = <<>> THEN Respond(r, 400)
  ELSE [req[r] EXCEPT !.pc = "existing", !.clean = CleanEmails(req[r].raw)]

bulkAddProjectMembers_project(r) ==
  /\ req[r].h = "bulkAddProjectMembers" /\ req[r].pc = "project"
  /\ \E fail \in BOOLEAN :
       req' = [req EXCEPT ![r] =
       IF ~req[r].hasRaw \/ Len(req[r].raw) = 0 THEN Respond(r, 400)
       ELSE IF fail THEN Failed(r, [Respond(r, 404) EXCEPT !.auth = "notfound"])
       ELSE PermissionProject(r, BulkClean(r))]
  /\ UNCHANGED <<zone, users, projects, members, tasks, assignments, serial, started>>

bulkAddProjectMembers_admin(r) ==
  /\ req[r].h = "bulkAddProjectMembers" /\ req[r].pc = "admin"
  /\ \E fail \in BOOLEAN :
       req' = [req EXCEPT ![r] =
       IF fail THEN Failed(r, [Respond(r, 403) EXCEPT !.auth = "denied"])
       ELSE PermissionAdmin(r, BulkClean(r))]
  /\ UNCHANGED <<zone, users, projects, members, tasks, assignments, serial, started>>

\* the cleaned emails without the filter on the existing members
NewEmailsUnfiltered(clean, existingMembers) == clean

\* cleanEmails.filter(e => !existingEmailSet.has(e))
NewEmails(clean, existingMembers) ==
  LET existingEmailSet == {ToLowerCase(m.member_email) : m \in existingMembers}
      IsNew(e) == e \notin existingEmailSet
  IN SelectSeq(clean, IsNew)

bulkAddProjectMembers_existing(r) ==
  /\ req[r].h = "bulkAddProjectMembers" /\ req[r].pc = "existing"
  /\ req' = [req EXCEPT ![r] =
       LET newEmails == NewEmails(req[r].clean, MembersOf(req[r].p)) IN
       IF Len(newEmails) = 0 THEN Respond(r, 409)
       ELSE [req[r] EXCEPT !.pc = "users", !.fresh = newEmails]]
  /\ UNCHANGED <<zone, users, projects, members, tasks, assignments, serial, started>>

bulkAddProjectMembers_users(r) ==
  /\ req[r].h = "bulkAddProjectMembers" /\ req[r].pc = "users"
  /\ req' = [req EXCEPT ![r] =
       [req[r] EXCEPT !.pc = "insert", !.found = UsersByEmail(Range(req[r].fresh))]]
  /\ UNCHANGED <<zone, users, projects, members, tasks, assignments, serial, started>>

\* an invitation for every inserted email, resolved or not
EmailsToInviteAll(r) == Range(req[r].fresh)

\* newEmails.filter(e => !userByEmail.has(e))
EmailsToInvite(r) ==
  {e \in Range(req[r].fresh) : FoundUserId(req[r].found, e) = NULL}

bulkAddProjectMembers_insert(r) ==
  /\ req[r].h = "bulkAddProjectMembers" /\ req[r].pc = "insert"
  /\ \E fail \in BOOLEAN :
       IF fail \/ ProjectByUuid(req[r].p) = {}
       THEN /\ req' = [req EXCEPT ![r] = Failed(r, Respond(r, 400))]
            /\ UNCHANGED <<members, serial>>
       ELSE /\ serial.member + Len(req[r].fresh) - 1 <= MaxMemberRows
            /\ members' = members \cup
                 MemberRows(req[r].p, req[r].fresh, req[r].found,
                            IF req[r].role = "" THEN "viewer" ELSE req[r].role)
            /\ serial' = [serial EXCEPT !.member = @ + Len(req[r].fresh)]
            /\ req' = [req EXCEPT ![r] =
                 IF EmailsToInvite(r) # {} THEN [req[r] EXCEPT !.pc = "inviter"]
                 ELSE Respond(r, 201)]
  /\ UNCHANGED <<zone, users, projects, tasks, assignments, started>>

bulkAddProjectMembers_inviter(r) ==
  /\ req[r].h = "bulkAddProjectMembers" /\ req[r].pc = "inviter"
  /\ req' = [req EXCEPT ![r] =
       [Respond(r, 201) EXCEPT !.invite = EmailsToInvite(r),
                               !.emailsSent = Cardinality(EmailsToInvite(r))]]
  /\ UNCHANGED <<zone, users, projects, members, tasks, assignments, serial, started>>

(***************************************************************************)
(* updateProject (projects controller)                                     *)
(***************************************************************************)
\* before records the member rows of the project when the request arrives
updateProject_start(r, D) ==
  \E u \in Users, p \in KnownProjects, fields \in BOOLEAN, hasRaw \in BOOLEAN,
     raw \in D.lists, span \in D.spans :
    /\ hasRaw \/ raw = <<>>
    /\ Begin(r, [Idle EXCEPT !.h = "updateProject", !.pc = "project", !.uid = u,
                             !.p = p, !.fields = fields, !.hasRaw = hasRaw, !.raw = raw,
                             !.span = span, !.before = MembersOf(p),
                             !.clean = IF hasRaw THEN CleanEmails(raw) ELSE <<>>])
    /\ UNCHANGED <<zone, users, projects, members, tasks, assignments, serial>>

\* what the handler does once the caller is let through: the field update
\* when the body has allowed fields, else the member replacement when the
\* body has memberEmails, else the response
UpdateProjectAfter(r, stage) ==
  IF stage = "granted" /\ req[r].fields THEN [req[r] EXCEPT !.pc = "update"]
  ELSE IF req[r].hasRaw THEN [req[r] EXCEPT !.pc = "existing"]
  ELSE Respond(r, 200)

updateProject_project(r) ==
  /\ req[r].h = "updateProject" /\ req[r].pc = "project"
  /\ req' = [req EXCEPT ![r] =
       LET existingProject == Single(ProjectByUuid(req[r].p)) IN
       IF existingProject = {} THEN [Respond(r, 404) EXCEPT !.auth = "notfound"]
       ELSE IF IsOwner(existingProject, req[r].uid)
            THEN [UpdateProjectAfter(r, "granted") EXCEPT !.auth = "granted"]
       ELSE [req[r] EXCEPT !.pc = "memberCheck"]]
  /\ UNCHANGED <<zone, users, projects, members, tasks, assignments, serial, started>>

\* .eq("project_uuid", uuid).eq("user_id", userId).single(); any role passes
updateProject_memberCheck(r) ==
  /\ req[r].h = "updateProject" /\ req[r].pc = "memberCheck"
  /\ req' = [req EXCEPT ![r] =
       LET memberCheck == Single({m \in MembersOf(req[r].p) : m.user_id = req[r].uid}) IN
       IF memberCheck = {} THEN [Respond(r, 403) EXCEPT !.auth = "denied"]
       ELSE [UpdateProjectAfter(r, "granted") EXCEPT !.auth = "granted"]]
  /\ UNCHANGED <<zone, users, projects, members, tasks, assignments, serial, started>>

\* update of the allowed fields; none of them is the owner or the uuid
updateProject_update(r) ==
  /\ req[r].h = "updateProject" /\ req[r].pc = "update"
  /\ \E fail \in BOOLEAN :
       IF fail
       THEN /\ req' = [req EXCEPT ![r] = Failed(r, Respond(r, 400))]
            /\ UNCHANGED projects
       ELSE /\ req' = [req EXCEPT ![r] = UpdateProjectAfter(r, "updated")]
            /\ projects' =
                 {IF p.project_uuid = req[r].p
                  THEN [p EXCEPT !.start_date = req[r].span[1],
                                 !.end_date = req[r].span[2]]
                  ELSE p : p \in projects}
  /\ UNCHANGED <<zone, users, members, tasks, assignments, serial, started>>

\* the emails of the members before the replacement
updateProject_existing(r) ==
  /\ req[r].h = "updateProject" /\ req[r].pc = "existing"
  /\ req' = [req EXCEPT ![r] =
       [req[r] EXCEPT !.pc = "deleteMembers",
          !.existing = {ToLowerCase(e) : e \in MemberEmailsOf(req[r].p)}]]
  /\ UNCHANGED <<zone, users, projects, members, tasks, assignments, serial, started>>

\* delete every member row of the project
updateProject_deleteMembers(r) ==
  /\ req[r].h = "updateProject" /\ req[r].pc = "deleteMembers"
  /\ \E fail \in BOOLEAN :
       IF fail
       THEN /\ req' = [req EXCEPT ![r] = Failed(r, Respond(r, 400))]
            /\ UNCHANGED members
       ELSE /\ members' = members \ MembersOf(req[r].p)
            /\ req' = [req EXCEPT ![r] =
                 IF Len(req[r].clean) > 0 THEN [req[r] EXCEPT !.pc = "lookupUsers"]
                 ELSE Respond(r, 200)]
  /\ UNCHANGED <<zone, users, projects, tasks, assignments, serial, started>>

\* batch lookup; its error is not looked at, no user is found then
updateProject_lookupUsers(r) ==
  /\ req[r].h = "updateProject" /\ req[r].pc = "lookupUsers"
  /\ \E fail \in BOOLEAN :
       req' = [req EXCEPT ![r] =
         IF fail THEN Failed(r, [req[r] EXCEPT !.pc = "insertMembers", !.found = {}])
         ELSE [req[r] EXCEPT !.pc = "insertMembers",
                             !.found = UsersByEmail(Range(req[r].clean))]]
  /\ UNCHANGED <<zone, users, projects, members, tasks, assignments, serial, started>>

\* the new members, memberEmails.filter(email =>
\* !existingEmailSet.has(email.toLowerCase())), are invited in a detached
\* block after the insert
updateProject_insertMembers(r) ==
  /\ req[r].h = "updateProject" /\ req[r].pc = "insertMembers"
  /\ \E fail \in BOOLEAN :
       IF fail \/ ProjectByUuid(req[r].p) = {}
       THEN /\ req' = [req EXCEPT ![r] = Failed(r, Respond(r, 400))]
            /\ UNCHANGED <<members, serial>>
       ELSE /\ serial.member + Len(req[r].clean) - 1 <= MaxMemberRows
            /\ members' = members \cup
                 MemberRows(req[r].p, req[r].clean, req[r].found, "viewer")
            /\ serial' = [serial EXCEPT !.member = @ + Len(req[r].clean)]
            /\ req' = [req EXCEPT ![r] =
                 [Respond(r, 200) EXCEPT
                    !.invite = {e \in Range(req[r].clean) :
                                  ToLowerCase(e) \notin req[r].existing}]]
  /\ UNCHANGED <<zone, users, projects, tasks, assignments, started>>

(***************************************************************************)
(* Mail service: the invitations of a request are sent one by one, each    *)
(* send succeeds or fails (Promise.allSettled); nobody awaits the batch.   *)
(***************************************************************************)
\* a mail service whose failed send turns the request into an error
sendProjectInviteEmailFatal(r) ==
  /\ \E e \in req[r].invite, delivered \in BOOLEAN :
       req' = [req EXCEPT ![r] =
         [req[r] EXCEPT !.invite = @ \ {e},
                        !.sent = IF delivered THEN @ \cup {e} ELSE @,
                        !.bounced = IF delivered THEN @ ELSE @ \cup {e},
                        !.status = IF delivered THEN @ ELSE 500]]
  /\ UNCHANGED <<zone, users, projects, members, tasks, assignments, serial, started>>

sendProjectInviteEmail(r) ==
  /\ \E e \in req[r].invite, delivered \in BOOLEAN :
       req' = [req EXCEPT ![r] =
         [req[r] EXCEPT !.invite = @ \ {e},
                        !.sent = IF delivered THEN @ \cup {e} ELSE @,
                        !.bounced = IF delivered THEN @ ELSE @ \cup {e}]]
  /\ UNCHANGED <<zone, users, projects, members, tasks, assignments, serial, started>>

(***************************************************************************)
(* deleteProject (projects controller)                                     *)
(***************************************************************************)
deleteProject_start(r, D) ==
  \E u \in Users, p \in KnownProjects, projectIds \in SUBSET KnownProjects :
    /\ Begin(r, [Idle EXCEPT !.h = "deleteProject", !.pc = "fetch", !.uid = u,
                             !.p = p, !.uuids = projectIds])
    /\ UNCHANGED <<zone, users, projects, members, tasks, assignments, serial>>

\* projectIds when the body has a non-empty array, else the path parameter
UuidsToDelete(r) == IF req[r].uuids # {} THEN req[r].uuids ELSE {req[r].p}

\* a filter that finds nothing as soon as one found project is the caller's
UnauthorizedUnlessSomeOwned(found, userId) ==
  IF \E p \in found : p.owner_id = userId THEN {}
  ELSE {p \in found : p.owner_id # userId}

\* projects?.filter(p => p.owner_id !== userId)
UnauthorizedProjects(found, userId) == {p \in found : p.owner_id # userId}

deleteProject_fetch(r) ==
  /\ req[r].h = "deleteProject" /\ req[r].pc = "fetch"
  /\ \E fail \in BOOLEAN :
       req' = [req EXCEPT ![r] =
         LET found == {p \in projects : p.project_uuid \in UuidsToDelete(r)} IN
         IF fail THEN Failed(r, Respond(r, 400))
         ELSE IF UnauthorizedProjects(found, req[r].uid) # {}
              THEN [Respond(r, 403) EXCEPT !.auth = "denied"]
         ELSE [req[r] EXCEPT !.pc = "delete", !.auth = "granted"]]
  /\ UNCHANGED <<zone, users, projects, members, tasks, assignments, serial, started>>

deleteProject_delete(r) ==
  /\ req[r].h = "deleteProject" /\ req[r].pc = "delete"
  /\ \E fail \in BOOLEAN :
       IF fail
       THEN /\ UNCHANGED <<projects, members, tasks, assignments>>
            /\ req' = [req EXCEPT ![r] = Failed(r, Respond(r, 400))]
       ELSE /\ CascadeDelete(UuidsToDelete(r))
            /\ req' = [req EXCEPT ![r] = Respond(r, 200)]
  /\ UNCHANGED <<zone, users, serial, started>>

(***************************************************************************)
(* Tasks controller.  Its access check reads the project with              *)
(* project_members!inner(user_id): an inner join, which returns no project *)
(* row for a project that has no member row.                               *)
(***************************************************************************)
\* .select("owner_id, project_members!inner(user_id)").eq("project_uuid").single()
ProjectInnerMembers(uuid) ==
  Single({p \in ProjectByUuid(uuid) : MembersOf(uuid) # {}})

\* isOwner || isMember on the project row and the member rows joined to it
HasAccess(project, userId) ==
  \/ IsOwner(project, userId)
  \/ \E p \in project : \E m \in MembersOf(p.project_uuid) : m.user_id = userId

TaskById(taskId) == Single({t \in tasks : t.task_id = taskId})

\* tasks row with projects:project_uuid(owner_id, project_members!inner(user_id)):
\* the embedded project is null when the project has no member row
TaskProject(task) ==
  IF task = {} THEN {}
  ELSE ProjectInnerMembers((CHOOSE t \in task : TRUE).project_uuid)

\* the access check of updateTask, deleteTask and the assignment handlers
TaskAccess(r, next) ==
  LET task == TaskById(req[r].t) IN
  IF task = {} THEN [Respond(r, 404) EXCEPT !.auth = "notfound"]
  ELSE IF ~HasAccess(TaskProject(task), req[r].uid)
       THEN [Respond(r, 403) EXCEPT !.auth = "denied"]
  ELSE [next EXCEPT !.auth = "granted"]

\* a task_assignments table without a key on (task_id, user_id)
NoPrimaryKey(taskId, userIds) == FALSE

\* PRIMARY KEY (task_id, user_id): an insert is refused as a whole when two
\* of its rows carry the same pair or one of its pairs is in the table
PrimaryKeyConflict(taskId, userIds) ==
  \/ \E i, j \in 1..Len(userIds) : i # j /\ userIds[i] = userIds[j]
  \/ \E a \in assignments : a.task_id = taskId /\ a.user_id \in Range(userIds)

\* the rows a batch insert adds to task_assignments
AssignmentRows(taskId, userIds) ==
  { [id |-> serial.assign + i - 1, task_id |-> taskId, user_id |-> userIds[i]] :
      i \in 1..Len(userIds) }

createTask_start(r, D) ==
  \E u \in Users, p \in KnownProjects, a \in D.assignees, due \in D.dues,
     now \in D.clocks :
    /\ Begin(r, [Idle EXCEPT !.h = "createTask", !.pc = "project", !.uid = u,
                             !.p = p, !.assign = a, !.due = due, !.now = now])
    /\ UNCHANGED <<zone, users, projects, members, tasks, assignments, serial>>

createTask_project(r) ==
  /\ req[r].h = "createTask" /\ req[r].pc = "project"
  /\ \E fail \in BOOLEAN :
       req' = [req EXCEPT ![r] =
         LET project == ProjectInnerMembers(req[r].p) IN
         IF fail THEN Failed(r, [Respond(r, 404) EXCEPT !.auth = "notfound"])
         ELSE IF project = {} THEN [Respond(r, 404) EXCEPT !.auth = "notfound"]
         ELSE IF ~HasAccess(project, req[r].uid)
              THEN [Respond(r, 403) EXCEPT !.auth = "denied"]
         ELSE [req[r] EXCEPT !.pc = "insert", !.auth = "granted"]]
  /\ UNCHANGED <<zone, users, projects, members, tasks, assignments, serial, started>>

createTask_insert(r) ==
  /\ req[r].h = "createTask" /\ req[r].pc = "insert"
  /\ \E fail \in BOOLEAN :
       IF fail \/ ProjectByUuid(req[r].p) = {}
       THEN /\ req' = [req EXCEPT ![r] = Failed(r, Respond(r, 400))]
            /\ UNCHANGED <<tasks, serial>>
       ELSE /\ serial.task <= MaxTasks
            /\ tasks' = tasks \cup
                 {[task_id |-> serial.task, project_uuid |-> req[r].p,
                   due_date |-> req[r].due, created_at |-> req[r].now]}
            /\ serial' = [serial EXCEPT !.task = @ + 1]
            /\ req' = [req EXCEPT ![r] =
                 IF Len(req[r].assign) > 0
                 THEN [req[r] EXCEPT !.pc = "assign", !.t = serial.task]
                 ELSE [Respond(r, 201) EXCEPT !.t = serial.task]]
  /\ UNCHANGED <<zone, users, projects, members, assignments, started>>

\* insert of the assignments; its error is logged and the request succeeds
createTask_assign(r) ==
  /\ req[r].h = "createTask" /\ req[r].pc = "assign"
  /\ \E fail \in BOOLEAN :
       IF fail \/ TaskById(req[r].t) = {}
               \/ PrimaryKeyConflict(req[r].t, req[r].assign)
       THEN /\ UNCHANGED <<assignments, serial>>
            /\ req' = [req EXCEPT ![r] = Failed(r, Respond(r, 201))]
       ELSE /\ serial.assign + Len(req[r].assign) - 1 <= MaxAssignments
            /\ assignments' = assignments \cup AssignmentRows(req[r].t, req[r].assign)
            /\ serial' = [serial EXCEPT !.assign = @ + Len(req[r].assign)]
            /\ req' = [req EXCEPT ![r] = Respond(r, 201)]
  /\ UNCHANGED <<zone, users, projects, members, tasks, started>>

updateTask_start(r, D) ==
  \E u \in Users, t \in KnownTasks, fields \in BOOLEAN, hasAssign \in BOOLEAN,
     a \in D.assignees, due \in D.dues :
    /\ hasAssign \/ a = <<>>
    /\ Begin(r, [Idle EXCEPT !.h = "updateTask", !.pc = "task", !.uid = u, !.t = t,
                             !.fields = fields, !.hasAssign = hasAssign, !.assign = a,
                             !.due = due])
    /\ UNCHANGED <<zone, users, projects, members, tasks, assignments, serial>>

\* after the update of the fields: the assignments when the body has them
UpdateTaskAfter(r) ==
  IF req[r].hasAssign THEN [req[r] EXCEPT !.pc = "unassign"] ELSE Respond(r, 200)

updateTask_task(r) ==
  /\ req[r].h = "updateTask" /\ req[r].pc = "task"
  /\ \E fail \in BOOLEAN :
       req' = [req EXCEPT ![r] =
         IF fail THEN Failed(r, [Respond(r, 404) EXCEPT !.auth = "notfound"])
         ELSE TaskAccess(r,
                IF ~req[r].fields /\ ~req[r].hasAssign THEN Respond(r, 400)
                ELSE IF req[r].fields THEN [req[r] EXCEPT !.pc = "update"]
                ELSE UpdateTaskAfter(r))]
  /\ UNCHANGED <<zone, users, projects, members, tasks, assignments, serial, started>>

\* update of title, description, status, priority, due_date: no field of
\* the task that the store model keeps
updateTask_update(r) ==
  /\ req[r].h = "updateTask" /\ req[r].pc = "update"
  /\ \E fail \in BOOLEAN :
       IF fail \/ TaskById(req[r].t) = {}
       THEN /\ req' = [req EXCEPT ![r] = Failed(r, Respond(r, 400))]
            /\ UNCHANGED tasks
       ELSE /\ req' = [req EXCEPT ![r] = UpdateTaskAfter(r)]
            /\ tasks' =
                 {IF t.task_id = req[r].t THEN [t EXCEPT !.due_date = req[r].due]
                  ELSE t : t \in tasks}
  /\ UNCHANGED <<zone, users, projects, members, assignments, serial, started>>

\* delete of the task's assignments; the result is not looked at
updateTask_unassign(r) ==
  /\ req[r].h = "updateTask" /\ req[r].pc = "unassign"
  /\ \E fail \in BOOLEAN :
       LET after == IF Len(req[r].assign) > 0 THEN [req[r] EXCEPT !.pc = "assign"]
                    ELSE Respond(r, 200)
       IN IF fail
          THEN /\ UNCHANGED assignments
               /\ req' = [req EXCEPT ![r] = Failed(r, after)]
          ELSE /\ assignments' = {a \in assignments : a.task_id # req[r].t}
               /\ req' = [req EXCEPT ![r] = after]
  /\ UNCHANGED <<zone, users, projects, members, tasks, serial, started>>

updateTask_assign(r) ==
  /\ req[r].h = "updateTask" /\ req[r].pc = "assign"
  /\ \E fail \in BOOLEAN :
       IF fail \/ TaskById(req[r].t) = {}
               \/ PrimaryKeyConflict(req[r].t, req[r].assign)
       THEN /\ UNCHANGED <<assignments, serial>>
            /\ req' = [req EXCEPT ![r] = Failed(r, Respond(r, 200))]
       ELSE /\ serial.assign + Len(req[r].assign) - 1 <= MaxAssignments
            /\ assignments' = assignments \cup AssignmentRows(req[r].t, req[r].assign)
            /\ serial' = [serial EXCEPT !.assign = @ + Len(req[r].assign)]
            /\ req' = [req EXCEPT ![r] = Respond(r, 200)]
  /\ UNCHANGED <<zone, users, projects, members, tasks, started>>

deleteTask_start(r, D) ==
  \E u \in Users, t \in KnownTasks :
    /\ Begin(r, [Idle EXCEPT !.h = "deleteTask", !.pc = "task", !.uid = u, !.t = t])
    /\ UNCHANGED <<zone, users, projects, members, tasks, assignments, serial>>

deleteTask_task(r) ==
  /\ req[r].h = "deleteTask" /\ req[r].pc = "task"
  /\ \E fail \in BOOLEAN :
       req' = [req EXCEPT ![r] =
         IF fail THEN Failed(r, [Respond(r, 404) EXCEPT !.auth = "notfound"])
         ELSE TaskAccess(r, [req[r] EXCEPT !.pc = "delete"])]
  /\ UNCHANGED <<zone, users, projects, members, tasks, assignments, serial, started>>

\* delete of the task; its assignments go with it (ON DELETE CASCADE)
deleteTask_delete(r) ==
  /\ req[r].h = "deleteTask" /\ req[r].pc = "delete"
  /\ \E fail \in BOOLEAN :
       IF fail
       THEN /\ req' = [req EXCEPT ![r] = Failed(r, Respond(r, 400))]
            /\ UNCHANGED <<tasks, assignments>>
       ELSE /\ tasks' = {t \in tasks : t.task_id # req[r].t}
            /\ assignments' = {a \in assignments : a.task_id # req[r].t}
            /\ req' = [req EXCEPT ![r] = Respond(r, 200)]
  /\ UNCHANGED <<zone, users, projects, members, serial, started>>

assignUserToTask_start(r, D) ==
  \E u \in Users, t \in KnownTasks, target \in Users \cup {0} :
    /\ Begin(r, [Idle EXCEPT !.h = "assignUserToTask", !.pc = "task", !.uid = u,
                             !.t = t, !.target = target])
    /\ UNCHANGED <<zone, users, projects, members, tasks, assignments, serial>>

assignUserToTask_task(r) ==
  /\ req[r].h = "assignUserToTask" /\ req[r].pc = "task"
  /\ req' = [req EXCEPT ![r] =
       IF req[r].target = 0 THEN Respond(r, 400)
       ELSE TaskAccess(r, [req[r] EXCEPT !.pc = "existing"])]
  /\ UNCHANGED <<zone, users, projects, members, tasks, assignments, serial, started>>

\* .eq("task_id", taskId).eq("user_id", user_id).single(); if (existing) 409
ExistingAssignment(taskId, userId) ==
  Single({a \in assignments : a.task_id = taskId /\ a.user_id = userId})

assignUserToTask_existing(r) ==
  /\ req[r].h = "assignUserToTask" /\ req[r].pc = "existing"
  /\ req' = [req EXCEPT ![r] =
       IF ExistingAssignment(req[r].t, req[r].target) # {} THEN Respond(r, 409)
       ELSE [req[r] EXCEPT !.pc = "insert"]]
  /\ UNCHANGED <<zone, users, projects, members, tasks, assignments, serial, started>>

assignUserToTask_insert(r) ==
  /\ req[r].h = "assignUserToTask" /\ req[r].pc = "insert"
  /\ \E fail \in BOOLEAN :
       IF fail \/ TaskById(req[r].t) = {}
               \/ PrimaryKeyConflict(req[r].t, <<req[r].target>>)
       THEN /\ req' = [req EXCEPT ![r] = Failed(r, Respond(r, 400))]
            /\ UNCHANGED <<assignments, serial>>
       ELSE /\ serial.assign <= MaxAssignments
            /\ assignments' = assignments \cup
                 AssignmentRows(req[r].t, <<req[r].target>>)
            /\ serial' = [serial EXCEPT !.assign = @ + 1]
            /\ req' = [req EXCEPT ![r] = Respond(r, 201)]
  /\ UNCHANGED <<zone, users, projects, members, tasks, started>>

unassignUserFromTask_start(r, D) ==
  \E u \in Users, t \in KnownTasks, target \in Users :
    /\ Begin(r, [Idle EXCEPT !.h = "unassignUserFromTask", !.pc = "task", !.uid = u,
                             !.t = t, !.target = target])
    /\ UNCHANGED <<zone, users, projects, members, tasks, assignments, serial>>

unassignUserFromTask_task(r) ==
  /\ req[r].h = "unassignUserFromTask" /\ req[r].pc = "task"
  /\ req' = [req EXCEPT ![r] = TaskAccess(r, [req[r] EXCEPT !.pc = "delete"])]
  /\ UNCHANGED <<zone, users, projects, members, tasks, assignments, serial, started>>

unassignUserFromTask_delete(r) ==
  /\ req[r].h = "unassignUserFromTask" /\ req[r].pc = "delete"
  /\ \E fail \in BOOLEAN :
       IF fail
       THEN /\ req' = [req EXCEPT ![r] = Failed(r, Respond(r, 400))]
            /\ UNCHANGED assignments
       ELSE /\ assignments' =
                 {a \in assignments :
                    ~(a.task_id = req[r].t /\ a.user_id = req[r].target)}
            /\ req' = [req EXCEPT ![r] = Respond(r, 200)]
  /\ UNCHANGED <<zone, users, projects, members, tasks, serial, started>>

(***************************************************************************)
(* Read handlers with an access check.                                     *)
(***************************************************************************)
getProjectById_start(r, D) ==
  \E u \in Users, p \in KnownProjects :
    /\ Begin(r, [Idle EXCEPT !.h = "getProjectById", !.pc = "project", !.uid = u,
                             !.p = p])
    /\ UNCHANGED <<zone, users, projects, members, tasks, assignments, serial>>

\* select("*, project_members(member_email, role, user_id)"): a left join
getProjectById_project(r) ==
  /\ req[r].h = "getProjectById" /\ req[r].pc = "project"
  /\ \E fail \in BOOLEAN :
       req' = [req EXCEPT ![r] =
         LET project == Single(ProjectByUuid(req[r].p)) IN
         IF fail THEN Failed(r, [Respond(r, 404) EXCEPT !.auth = "notfound"])
         ELSE IF project = {} THEN [Respond(r, 404) EXCEPT !.auth = "notfound"]
         ELSE IF ~HasAccess(project, req[r].uid)
              THEN [Respond(r, 403) EXCEPT !.auth = "denied"]
         ELSE [Respond(r, 200) EXCEPT !.auth = "granted"]]
  /\ UNCHANGED <<zone, users, projects, members, tasks, assignments, serial, started>>

\* the access check of listProjectMembers and of listTasks with a projectUuid
ProjectAccess(r, next) ==
  LET project == ProjectInnerMembers(req[r].p) IN
  IF project = {} THEN [Respond(r, 404) EXCEPT !.auth = "notfound"]
  ELSE IF ~HasAccess(project, req[r].uid)
       THEN [Respond(r, 403) EXCEPT !.auth = "denied"]
  ELSE [next EXCEPT !.auth = "granted"]

\* listProjectMembers of the members controller (GET /:projectId/members is
\* bound to the handler of the same name of the projects controller)
listProjectMembers_start(r, D) ==
  \E u \in Users, p \in KnownProjects :
    /\ Begin(r, [Idle EXCEPT !.h = "listProjectMembers", !.pc = "project", !.uid = u,
                             !.p = p])
    /\ UNCHANGED <<zone, users, projects, members, tasks, assignments, serial>>

listProjectMembers_project(r) ==
  /\ req[r].h = "listProjectMembers" /\ req[r].pc = "project"
  /\ req' = [req EXCEPT ![r] = ProjectAccess(r, [req[r] EXCEPT !.pc = "members"])]
  /\ UNCHANGED <<zone, users, projects, members, tasks, assignments, serial, started>>

listProjectMembers_members(r) ==
  /\ req[r].h = "listProjectMembers" /\ req[r].pc = "members"
  /\ \E fail \in BOOLEAN :
       req' = [req EXCEPT ![r] =
         IF fail THEN Failed(r, Respond(r, 400))
         ELSE [Respond(r, 200) EXCEPT !.out = {m.id : m \in MembersOf(req[r].p)}]]
  /\ UNCHANGED <<zone, users, projects, members, tasks, assignments, serial, started>>

\* listProjectMembers of the projects controller, the handler that
\* GET /:projectId/members is bound to: one query by project_uuid
projectsController_listProjectMembers_start(r, D) ==
  \E u \in Users, p \in KnownProjects :
    /\ Begin(r, [Idle EXCEPT !.h = "projectsController.listProjectMembers",
                             !.pc = "members", !.uid = u, !.p = p])
    /\ UNCHANGED <<zone, users, projects, members, tasks, assignments, serial>>

projectsController_listProjectMembers(r) ==
  /\ req[r].h = "projectsController.listProjectMembers" /\ req[r].pc = "members"
  /\ \E fail \in BOOLEAN :
       req' = [req EXCEPT ![r] =
         IF fail THEN Failed(r, Respond(r, 400))
         ELSE [Respond(r, 200) EXCEPT !.out = {m.id : m \in MembersOf(req[r].p)}]]
  /\ UNCHANGED <<zone, users, projects, members, tasks, assignments, serial, started>>

getTaskById_start(r, D) ==
  \E u \in Users, t \in KnownTasks :
    /\ Begin(r, [Idle EXCEPT !.h = "getTaskById", !.pc = "task", !.uid = u, !.t = t])
    /\ UNCHANGED <<zone, users, projects, members, tasks, assignments, serial>>

\* 404 without the task, 404 again when the embedded project is null
getTaskById_task(r) ==
  /\ req[r].h = "getTaskById" /\ req[r].pc = "task"
  /\ \E fail \in BOOLEAN :
       req' = [req EXCEPT ![r] =
         LET task == TaskById(req[r].t) IN
         IF fail THEN Failed(r, [Respond(r, 404) EXCEPT !.auth = "notfound"])
         ELSE IF task = {} \/ TaskProject(task) = {}
              THEN [Respond(r, 404) EXCEPT !.auth = "notfound"]
         ELSE IF ~HasAccess(TaskProject(task), req[r].uid)
              THEN [Respond(r, 403) EXCEPT !.auth = "denied"]
         ELSE [req[r] EXCEPT !.pc = "assignments", !.auth = "granted"]]
  /\ UNCHANGED <<zone, users, projects, members, tasks, assignments, serial, started>>

\* the assignments of the task; an error of this read gives an empty list
getTaskById_assignments(r) ==
  /\ req[r].h = "getTaskById" /\ req[r].pc = "assignments"
  /\ \E fail \in BOOLEAN :
       req' = [req EXCEPT ![r] =
         IF fail THEN Failed(r, Respond(r, 200))
         ELSE [Respond(r, 200) EXCEPT
                 !.out = {a.user_id : a \in {x \in assignments : x.task_id = req[r].t}}]]
  /\ UNCHANGED <<zone, users, projects, members, tasks, assignments, serial, started>>

listTaskAssignments_start(r, D) ==
  \E u \in Users, t \in KnownTasks :
    /\ Begin(r, [Idle EXCEPT !.h = "listTaskAssignments", !.pc = "task", !.uid = u,
                             !.t = t])
    /\ UNCHANGED <<zone, users, projects, members, tasks, assignments, serial>>

listTaskAssignments_task(r) ==
  /\ req[r].h = "listTaskAssignments" /\ req[r].pc = "task"
  /\ req' = [req EXCEPT ![r] = TaskAccess(r, [req[r] EXCEPT !.pc = "assignments"])]
  /\ UNCHANGED <<zone, users, projects, members, tasks, assignments, serial, started>>

listTaskAssignments_assignments(r) ==
  /\ req[r].h = "listTaskAssignments" /\ req[r].pc = "assignments"
  /\ \E fail \in BOOLEAN :
       req' = [req EXCEPT ![r] =
         IF fail THEN Failed(r, Respond(r, 400))
         ELSE [Respond(r, 200) EXCEPT
                 !.out = {a.user_id : a \in {x \in assignments : x.task_id = req[r].t}}]]
  /\ UNCHANGED <<zone, users, projects, members, tasks, assignments, serial, started>>

(***************************************************************************)
(* The projects a user sees: listTasks, getDashboardData, getCalendarData. *)
(* A query result is an array; rows come in key order.                     *)
(***************************************************************************)
\* projects .select("project_uuid").eq("owner_id", userId), mapped to uuids
OwnedProjectUuids(userId) ==
  LET Owned(uuid) == \E p \in projects : p.project_uuid = uuid /\ p.owner_id = userId
  IN SelectSeq([i \in 1..MaxProjects |-> i], Owned)

\* project_members .select("project_uuid").eq("user_id", userId), mapped to uuids
MemberProjectUuids(userId) ==
  LET Mine(id) == \E m \in members : m.id = id /\ m.user_id = userId
      ids == SelectSeq([i \in 1..MaxMemberRows |-> i], Mine)
  IN [k \in 1..Len(ids) |-> (CHOOSE m \in members : m.id = ids[k]).project_uuid]

\* the two arrays joined, without the Set
AllProjectUuidsJoined(owned, member) == owned \o member

\* [...new Set([...ownedProjectUuids, ...memberProjectUuids])]
AllProjectUuids(owned, member) == ArrayFromSet(owned \o member)

TasksIn(uuids) == {t.task_id : t \in {x \in tasks : x.project_uuid \in uuids}}

listTasks_start(r, D) ==
  \E u \in Users, p \in KnownProjects \cup {0} :
    /\ Begin(r, [Idle EXCEPT !.h = "listTasks", !.uid = u, !.p = p,
                             !.pc = IF p # 0 THEN "project" ELSE "userProjects"])
    /\ UNCHANGED <<zone, users, projects, members, tasks, assignments, serial>>

listTasks_project(r) ==
  /\ req[r].h = "listTasks" /\ req[r].pc = "project"
  /\ req' = [req EXCEPT ![r] =
       ProjectAccess(r, [req[r] EXCEPT !.pc = "tasks", !.vis = <<req[r].p>>])]
  /\ UNCHANGED <<zone, users, projects, members, tasks, assignments, serial, started>>

\* the member rows of the user; an error of this read gives no row
listTasks_userProjects(r) ==
  /\ req[r].h = "listTasks" /\ req[r].pc = "userProjects"
  /\ \E fail \in BOOLEAN :
       req' = [req EXCEPT ![r] =
         IF fail THEN Failed(r, [req[r] EXCEPT !.pc = "ownedProjects"])
         ELSE [req[r] EXCEPT !.pc = "ownedProjects",
                             !.list = MemberProjectUuids(req[r].uid)]]
  /\ UNCHANGED <<zone, users, projects, members, tasks, assignments, serial, started>>

\* the owned projects, then the Set of both: member uuids are added first
listTasks_ownedProjects(r) ==
  /\ req[r].h = "listTasks" /\ req[r].pc = "ownedProjects"
  /\ \E fail \in BOOLEAN :
       req' = [req EXCEPT ![r] =
         LET ownedProjects == IF fail THEN <<>> ELSE OwnedProjectUuids(req[r].uid)
             projectUuids == AllProjectUuids(req[r].list, ownedProjects)
             after == IF Len(projectUuids) > 0
                      THEN [req[r] EXCEPT !.pc = "tasks", !.vis = projectUuids]
                      ELSE Respond(r, 200)
         IN IF fail THEN Failed(r, after) ELSE after]
  /\ UNCHANGED <<zone, users, projects, members, tasks, assignments, serial, started>>

\* the tasks of the projects, answered with their assignees
listTasks_tasks(r) ==
  /\ req[r].h = "listTasks" /\ req[r].pc = "tasks"
  /\ \E fail \in BOOLEAN :
       req' = [req EXCEPT ![r] =
         IF fail THEN Failed(r, Respond(r, 400))
         ELSE [Respond(r, 200) EXCEPT !.out = TasksIn(Range(req[r].vis))]]
  /\ UNCHANGED <<zone, users, projects, members, tasks, assignments, serial, started>>

(***************************************************************************)
(* Dates as the JavaScript Date of the server computes them.               *)
(***************************************************************************)
\* getDate(): the calendar day of an instant in the server's zone
LocalDay(t) == (t + zone) \div TicksPerDay

\* setHours(0, 0, 0, 0): the instant of the local midnight of that day
SetHoursZero(t) == LocalDay(t) * TicksPerDay - zone

\* toISOString().split("T")[0]: the calendar day of an instant in UTC
ToISODate(t) == t \div TicksPerDay

\* new Date("YYYY-MM-DD"): a date-only string is the UTC midnight of the day
ParseDate(d) == d * TicksPerDay

\* setDate(getDate() + n): the same local time of day n days later
AddDays(t, n) == t + n * TicksPerDay

\* .limit(10)
Limit == 10

\* the arrays .order(...).limit(10) may return: the rows by ascending key,
\* rows of equal key in any order, cut after the tenth
Ordered(rows, key) ==
  {IF Len(s) > Limit THEN SubSeq(s, 1, Limit) ELSE s :
     s \in {f \in [1..Cardinality(rows) -> rows] :
              \A i, j \in 1..Cardinality(rows) :
                i < j => f[i] # f[j] /\ key[f[i]] <= key[f[j]]}}

\* completedProjects: endDate = new Date(end_date); setHours(0,0,0,0);
\* endDate < today
CompletedProjects(allProjects, today) ==
  {p \in allProjects : SetHoursZero(ParseDate(p.end_date)) < today}

\* memberEmails: the lower-cased member_email of every member row
MemberEmailsLower(allMembers) ==
  {ToLowerCase(m.member_email) : m \in {x \in allMembers : x.member_email # <<>>}}

\* a filter that drops every email as soon as one account is found
EmailsWithoutAccountsAllOrNone(memberEmails, usersByEmail) ==
  IF usersByEmail = {} THEN memberEmails ELSE {}

\* memberEmailsArray.filter(email => !emailsWithAccounts.has(email))
EmailsWithoutAccounts(memberEmails, usersByEmail) ==
  LET emailsWithAccounts == {ToLowerCase(u.email) : u \in usersByEmail}
  IN {e \in memberEmails : e \notin emailsWithAccounts}

\* totalTeamMembers = uniqueUserIds.size + emailsWithoutAccounts.length
TotalTeamMembers(uniqueUserIds, memberEmails, usersByEmail) ==
  Cardinality(uniqueUserIds \cup {u.user_id : u \in usersByEmail})
  + Cardinality(EmailsWithoutAccounts(memberEmails, usersByEmail))

\* the team size the handler derives from the rows of the visible projects
TeamSize(allProjects, allMembers) ==
  LET uniqueUserIds ==
        {p.owner_id : p \in {x \in allProjects : x.owner_id # NULL}}
        \cup {m.user_id : m \in {x \in allMembers : x.user_id # NULL}}
      memberEmails == MemberEmailsLower(allMembers)
  IN IF memberEmails = {} THEN Cardinality(uniqueUserIds)
     ELSE TotalTeamMembers(uniqueUserIds, memberEmails, UsersByEmail(memberEmails))

\* .lte("due_date", fourteenDaysFromNow.toISOString().split("T")[0])
\* .gte("due_date", today.toISOString().split("T")[0])
\* .not("due_date", "is", null)
UpcomingDeadlines(rows, today, now) ==
  {t \in rows :
     /\ t.due_date # NULL
     /\ t.due_date <= ToISODate(AddDays(now, 14))
     /\ t.due_date >= ToISODate(today)}

TaskRowsIn(uuids) == {t \in tasks : t.project_uuid \in uuids}

getDashboardData_start(r, D) ==
  \E u \in Users, now \in D.clocks :
    /\ Begin(r, [Idle EXCEPT !.h = "getDashboardData", !.pc = "owned", !.uid = u,
                             !.now = now])
    /\ UNCHANGED <<zone, users, projects, members, tasks, assignments, serial>>

\* the two reads of the Promise.all; an error of either gives 500
getDashboardData_owned(r) ==
  /\ req[r].h = "getDashboardData" /\ req[r].pc = "owned"
  /\ \E fail \in BOOLEAN :
       req' = [req EXCEPT ![r] =
         IF fail THEN Failed(r, [req[r] EXCEPT !.pc = "member"])
         ELSE [req[r] EXCEPT !.pc = "member", !.list = OwnedProjectUuids(req[r].uid)]]
  /\ UNCHANGED <<zone, users, projects, members, tasks, assignments, serial, started>>

\* the member read without the answer for an empty set of uuids
getDashboardData_memberNoEmptyAnswer(r) ==
  /\ req[r].h = "getDashboardData" /\ req[r].pc = "member"
  /\ \E fail \in BOOLEAN :
       req' = [req EXCEPT ![r] =
         LET allProjectUuids ==
               AllProjectUuids(req[r].list, MemberProjectUuids(req[r].uid))
         IN IF fail THEN Failed(r, Respond(r, 500))
            ELSE IF req[r].err # "" THEN Respond(r, 500)
            ELSE [req[r] EXCEPT !.pc = "projects", !.vis = allProjectUuids]]
  /\ UNCHANGED <<zone, users, projects, members, tasks, assignments, serial, started>>

getDashboardData_member(r) ==
  /\ req[r].h = "getDashboardData" /\ req[r].pc = "member"
  /\ \E fail \in BOOLEAN :
       req' = [req EXCEPT ![r] =
         LET allProjectUuids ==
               AllProjectUuids(req[r].list, MemberProjectUuids(req[r].uid))
         IN IF fail THEN Failed(r, Respond(r, 500))
            ELSE IF req[r].err # "" THEN Respond(r, 500)
            ELSE IF Len(allProjectUuids) = 0 THEN Respond(r, 200)
            ELSE [req[r] EXCEPT !.pc = "projects", !.vis = allProjectUuids]]
  /\ UNCHANGED <<zone, users, projects, members, tasks, assignments, serial, started>>

\* projects .in("project_uuid", allProjectUuids); totalProjects is the
\* number of rows returned, completedProjects those that ended before today
getDashboardData_projects(r) ==
  /\ req[r].h = "getDashboardData" /\ req[r].pc = "projects"
  /\ \E fail \in BOOLEAN :
       req' = [req EXCEPT ![r] =
         LET allProjects == {p \in projects : p.project_uuid \in Range(req[r].vis)}
             today == SetHoursZero(req[r].now)
         IN IF fail THEN Failed(r, Respond(r, 500))
            ELSE [req[r] EXCEPT
                    !.pc = "members",
                    !.total = Cardinality(allProjects),
                    !.completed = Cardinality(CompletedProjects(allProjects, today)),
                    !.ids = {p.owner_id : p \in {x \in allProjects : x.owner_id # NULL}}]]
  /\ UNCHANGED <<zone, users, projects, members, tasks, assignments, serial, started>>

\* project_members .in("project_uuid", allProjectUuids)
getDashboardData_members(r) ==
  /\ req[r].h = "getDashboardData" /\ req[r].pc = "members"
  /\ \E fail \in BOOLEAN :
       req' = [req EXCEPT ![r] =
         LET allMembers == {m \in members : m.project_uuid \in Range(req[r].vis)}
             uniqueUserIds ==
               req[r].ids \cup {m.user_id : m \in {x \in allMembers : x.user_id # NULL}}
             memberEmails == MemberEmailsLower(allMembers)
         IN IF fail THEN Failed(r, Respond(r, 500))
            ELSE [req[r] EXCEPT
                    !.pc = IF memberEmails # {} THEN "usersByEmail" ELSE "recentTasks",
                    !.ids = uniqueUserIds, !.mails = memberEmails,
                    !.team = Cardinality(uniqueUserIds)]]
  /\ UNCHANGED <<zone, users, projects, members, tasks, assignments, serial, started>>

\* the lookup of the member emails among the users; its error is not looked
\* at and leaves no user found
getDashboardData_usersByEmail(r) ==
  /\ req[r].h = "getDashboardData" /\ req[r].pc = "usersByEmail"
  /\ \E fail \in BOOLEAN :
       req' = [req EXCEPT ![r] =
         LET usersByEmail == IF fail THEN {} ELSE UsersByEmail(req[r].mails)
             after == [req[r] EXCEPT
                         !.pc = "recentTasks",
                         !.team = TotalTeamMembers(req[r].ids, req[r].mails, usersByEmail)]
         IN IF fail THEN Failed(r, after) ELSE after]
  /\ UNCHANGED <<zone, users, projects, members, tasks, assignments, serial, started>>

\* the tasks created in the last seven days, newest first
getDashboardData_recentTasks(r) ==
  /\ req[r].h = "getDashboardData" /\ req[r].pc = "recentTasks"
  /\ \E fail \in BOOLEAN :
       LET sevenDaysAgo == AddDays(req[r].now, -7)
           rows == {t \in TaskRowsIn(Range(req[r].vis)) : t.created_at >= sevenDaysAgo}
       IN \E recentTasksRaw \in Ordered(rows, [t \in rows |-> 0 - t.created_at]) :
            req' = [req EXCEPT ![r] =
              IF fail THEN Failed(r, Respond(r, 500))
              ELSE [req[r] EXCEPT !.pc = "upcomingTasks", !.recent = recentTasksRaw]]
  /\ UNCHANGED <<zone, users, projects, members, tasks, assignments, serial, started>>

\* the tasks due from today to fourteen days from now, soonest first
getDashboardData_upcomingTasks(r) ==
  /\ req[r].h = "getDashboardData" /\ req[r].pc = "upcomingTasks"
  /\ \E fail \in BOOLEAN :
       LET rows == UpcomingDeadlines(TaskRowsIn(Range(req[r].vis)),
                                     SetHoursZero(req[r].now), req[r].now)
       IN \E upcomingTasksRaw \in Ordered(rows, [t \in rows |-> t.due_date]) :
            req' = [req EXCEPT ![r] =
              IF fail THEN Failed(r, Respond(r, 500))
              ELSE [req[r] EXCEPT !.pc = "allTasks", !.upcoming = upcomingTasksRaw]]
  /\ UNCHANGED <<zone, users, projects, members, tasks, assignments, serial, started>>

\* the tasks counted in the histograms; an error of the read counts none
getDashboardData_allTasks(r) ==
  /\ req[r].h = "getDashboardData" /\ req[r].pc = "allTasks"
  /\ \E fail \in BOOLEAN :
       req' = [req EXCEPT ![r] =
         LET allTasks == IF fail THEN {} ELSE TaskRowsIn(Range(req[r].vis))
             after == [Respond(r, 200) EXCEPT !.stats = Cardinality(allTasks)]
         IN IF fail THEN Failed(r, after) ELSE after]
  /\ UNCHANGED <<zone, users, projects, members, tasks, assignments, serial, started>>

\* formattedProjects.reduce(...): the first entry of a project stays, an
\* owner entry replaces it
RECURSIVE UniqueProjects(_, _, _)
UniqueProjects(formatted, i, acc) ==
  IF i > Len(formatted) THEN acc
  ELSE LET project == formatted[i]
           at == {j \in 1..Len(acc) : acc[j].project_uuid = project.project_uuid}
       IN UniqueProjects(formatted, i + 1,
            IF at = {} THEN Append(acc, project)
            ELSE IF project.isOwner
                 THEN [acc EXCEPT ![CHOOSE j \in at : \A k \in at : j <= k] = project]
            ELSE acc)

\* projects .eq("owner_id", userId), with .gte("end_date", start_date)
\* .lte("start_date", end_date) when the query has both dates (a range)
OwnedProjects(userId, range) ==
  LET Owned(uuid) ==
        \E p \in projects :
          /\ p.project_uuid = uuid /\ p.owner_id = userId
          /\ range # <<>> => p.end_date >= range[1] /\ p.start_date <= range[2]
      uuids == SelectSeq([i \in 1..MaxProjects |-> i], Owned)
  IN [k \in 1..Len(uuids) |-> CHOOSE p \in projects : p.project_uuid = uuids[k]]

\* project_members .eq("user_id", userId) with the project of each row
MemberProjects(userId) ==
  LET Mine(id) == \E m \in members : m.id = id /\ m.user_id = userId
      ids == SelectSeq([i \in 1..MaxMemberRows |-> i], Mine)
      Row(id) == CHOOSE m \in members : m.id = id
  IN [k \in 1..Len(ids) |->
        [project_uuid |-> Row(ids[k]).project_uuid, role |-> Row(ids[k]).role,
         projects |-> CHOOSE p \in projects :
                        p.project_uuid = Row(ids[k]).project_uuid]]

\* the owned projects as owner entries, then the member rows' projects
FormattedProjects(owned, member) ==
  [i \in 1..Len(owned) |->
     [project_uuid |-> owned[i].project_uuid, start_date |-> owned[i].start_date,
      end_date |-> owned[i].end_date, role |-> "owner", isOwner |-> TRUE]]
  \o [i \in 1..Len(member) |->
        [project_uuid |-> member[i].projects.project_uuid,
         start_date |-> member[i].projects.start_date,
         end_date |-> member[i].projects.end_date,
         role |-> member[i].role, isOwner |-> FALSE]]

\* the tasks assigned to the user whatever their project
FormattedAssignedTasksUnfiltered(userId, uuids) ==
  LET Mine(id) == \E a \in assignments : a.id = id /\ a.user_id = userId
      ids == SelectSeq([i \in 1..MaxAssignments |-> i], Mine)
      Task(id) == CHOOSE t \in tasks :
                    t.task_id = (CHOOSE a \in assignments : a.id = id).task_id
  IN [k \in 1..Len(ids) |->
        [task_id |-> Task(ids[k]).task_id, project_uuid |-> Task(ids[k]).project_uuid,
         due_date |-> Task(ids[k]).due_date, isAssigned |-> TRUE]]

\* task_assignments .eq("user_id", userId) with the task of each row, kept
\* when the task's project is one of the uuids, as assigned entries
FormattedAssignedTasks(userId, uuids) ==
  LET Mine(id) ==
        \E a \in assignments :
          /\ a.id = id /\ a.user_id = userId
          /\ \E t \in tasks : t.task_id = a.task_id /\ t.project_uuid \in uuids
      ids == SelectSeq([i \in 1..MaxAssignments |-> i], Mine)
      Task(id) == CHOOSE t \in tasks :
                    t.task_id = (CHOOSE a \in assignments : a.id = id).task_id
  IN [k \in 1..Len(ids) |->
        [task_id |-> Task(ids[k]).task_id, project_uuid |-> Task(ids[k]).project_uuid,
         due_date |-> Task(ids[k]).due_date, isAssigned |-> TRUE]]

\* tasks .in("project_uuid", allProjectUuids), with .gte("due_date",
\* start_date).lte("due_date", end_date).not("due_date", "is", null) when
\* the query has both dates, as entries that are not assigned
ProjectTasks(uuids, range) ==
  LET In(id) ==
        \E t \in tasks :
          /\ t.task_id = id /\ t.project_uuid \in uuids
          /\ range # <<>> =>
               /\ t.due_date # NULL
               /\ t.due_date >= range[1] /\ t.due_date <= range[2]
      ids == SelectSeq([i \in 1..MaxTasks |-> i], In)
      Task(id) == CHOOSE t \in tasks : t.task_id = id
  IN [k \in 1..Len(ids) |->
        [task_id |-> ids[k], project_uuid |-> Task(ids[k]).project_uuid,
         due_date |-> Task(ids[k]).due_date, isAssigned |-> FALSE]]

\* a reduce in which an entry that is not assigned replaces the one kept
RECURSIVE UniqueTasksLastWins(_, _, _)
UniqueTasksLastWins(allTasks, i, acc) ==
  IF i > Len(allTasks) THEN acc
  ELSE LET task == allTasks[i]
           at == {j \in 1..Len(acc) : acc[j].task_id = task.task_id}
       IN UniqueTasksLastWins(allTasks, i + 1,
            IF at = {} THEN Append(acc, task)
            ELSE [acc EXCEPT ![CHOOSE j \in at : \A k \in at : j <= k] = task])

\* allTasks.reduce(...): the first entry of a task stays, an assigned entry
\* replaces it
RECURSIVE UniqueTasks(_, _, _)
UniqueTasks(allTasks, i, acc) ==
  IF i > Len(allTasks) THEN acc
  ELSE LET task == allTasks[i]
           at == {j \in 1..Len(acc) : acc[j].task_id = task.task_id}
       IN UniqueTasks(allTasks, i + 1,
            IF at = {} THEN Append(acc, task)
            ELSE IF task.isAssigned
                 THEN [acc EXCEPT ![CHOOSE j \in at : \A k \in at : j <= k] = task]
            ELSE acc)

\* the summary of the answer
Summary(uniqueProjects, ownedProjects, memberProjects, uniqueTasks, assignedTasks) ==
  [totalProjects |-> Len(uniqueProjects), ownedProjects |-> Len(ownedProjects),
   memberProjects |-> Len(memberProjects), totalTasks |-> Len(uniqueTasks),
   assignedTasks |-> Len(assignedTasks)]

getCalendarData_start(r, D) ==
  \E u \in Users, range \in D.ranges :
    /\ Begin(r, [Idle EXCEPT !.h = "getCalendarData", !.pc = "owned", !.uid = u,
                             !.range = range])
    /\ UNCHANGED <<zone, users, projects, members, tasks, assignments, serial>>

getCalendarData_owned(r) ==
  /\ req[r].h = "getCalendarData" /\ req[r].pc = "owned"
  /\ \E fail \in BOOLEAN :
       req' = [req EXCEPT ![r] =
         IF fail THEN Failed(r, Respond(r, 500))
         ELSE [req[r] EXCEPT !.pc = "member",
                             !.list = OwnedProjects(req[r].uid, req[r].range)]]
  /\ UNCHANGED <<zone, users, projects, members, tasks, assignments, serial, started>>

\* the member rows with their projects, then the Set of the uuids; without
\* any uuid the answer is empty
getCalendarData_member(r) ==
  /\ req[r].h = "getCalendarData" /\ req[r].pc = "member"
  /\ \E fail \in BOOLEAN :
       req' = [req EXCEPT ![r] =
         LET memberProjects == MemberProjects(req[r].uid)
             allProjectUuids ==
               AllProjectUuids(
                 [k \in 1..Len(req[r].list) |-> req[r].list[k].project_uuid],
                 [k \in 1..Len(memberProjects) |-> memberProjects[k].project_uuid])
             uniqueProjects ==
               UniqueProjects(FormattedProjects(req[r].list, memberProjects), 1, <<>>)
         IN IF fail THEN Failed(r, Respond(r, 500))
            ELSE IF Len(allProjectUuids) = 0
                 THEN [Respond(r, 200) EXCEPT
                         !.summary = Summary(<<>>, <<>>, <<>>, <<>>, <<>>)]
            ELSE [req[r] EXCEPT !.pc = "assigned", !.vis = allProjectUuids,
                                !.total = Len(uniqueProjects),
                                !.projs = uniqueProjects,
                                !.summary = Summary(uniqueProjects, req[r].list,
                                                    memberProjects, <<>>, <<>>)]]
  /\ UNCHANGED <<zone, users, projects, members, tasks, assignments, serial, started>>

\* the tasks assigned to the user, kept when their project is visible
getCalendarData_assigned(r) ==
  /\ req[r].h = "getCalendarData" /\ req[r].pc = "assigned"
  /\ \E fail \in BOOLEAN :
       req' = [req EXCEPT ![r] =
         IF fail THEN Failed(r, Respond(r, 500))
         ELSE [req[r] EXCEPT
                 !.pc = "tasks",
                 !.assigned = FormattedAssignedTasks(req[r].uid, Range(req[r].vis))]]
  /\ UNCHANGED <<zone, users, projects, members, tasks, assignments, serial, started>>

\* the tasks of the projects; the answer holds each task once
getCalendarData_tasks(r) ==
  /\ req[r].h = "getCalendarData" /\ req[r].pc = "tasks"
  /\ \E fail \in BOOLEAN :
       req' = [req EXCEPT ![r] =
         LET projectTasks == ProjectTasks(Range(req[r].vis), req[r].range)
             allTasks == req[r].assigned \o projectTasks
             uniqueTasks == UniqueTasks(allTasks, 1, <<>>)
         IN IF fail THEN Failed(r, Respond(r, 500))
            ELSE [Respond(r, 200) EXCEPT
                    !.out = {t.task_id : t \in Range(uniqueTasks)},
                    !.cal = uniqueTasks,
                    !.summary = [req[r].summary EXCEPT
                                   !.totalTasks = Len(uniqueTasks),
                                   !.assignedTasks = Len(req[r].assigned)]]]
  /\ UNCHANGED <<zone, users, projects, members, tasks, assignments, serial, started>>

(***************************************************************************)
(* Authentication middleware and the users controller.  A request carries  *)
(* the identity its token was issued for ("" when the token is missing or  *)
(* refused); the identity provider knows an email address for each         *)
(* identity.                                                               *)
(***************************************************************************)
ClerkUsers == {"c1", "c2"}

\* clerkUser.emailAddresses[0]?.emailAddress, as the identity provider holds it
ClerkEmail(sub) == IF sub = "c1" THEN E("A") ELSE E("b")

\* email VARCHAR(150) UNIQUE: another row of users holds the email
EmailTaken(email, userId) ==
  \E u \in users : u.email = email /\ u.user_id # userId

\* a request to POST /users (body: clerk_user_id, email) or to
\* PUT /users/:userId (body: email or no field)
clerkAuthenticate_start(r) ==
  \E sub \in ClerkUsers \cup {""}, h \in {"createUser", "updateUser"},
     clerk \in {"c1", ""}, id \in 0..MaxUsers, hasRaw \in BOOLEAN,
     raw \in {E("A"), E("b")} :
    /\ h = "createUser" => id = 0 /\ hasRaw /\ raw = E("b")
    /\ h = "updateUser" => clerk = "" /\ raw = E("A") /\ id # 0
    /\ Begin(r, [Idle EXCEPT !.h = h, !.pc = "authenticate", !.sub = sub,
                             !.clerk = clerk, !.target = id, !.hasRaw = hasRaw,
                             !.raw = <<raw>>])
    /\ UNCHANGED <<zone, users, projects, members, tasks, assignments, serial>>

\* verifyToken, then users .eq("clerk_user_id", clerkUserId).single(): the
\* row passes the request on, no row or an error goes on to provisioning
clerkAuthenticate_user(r) ==
  /\ req[r].pc = "authenticate"
  /\ \E fail \in BOOLEAN :
       req' = [req EXCEPT ![r] =
         LET user == Single({u \in users : u.clerk_user_id = req[r].sub}) IN
         IF req[r].sub = "" THEN Respond(r, 401)
         ELSE IF fail THEN Failed(r, [req[r] EXCEPT !.pc = "provision"])
         ELSE IF user = {} THEN [req[r] EXCEPT !.pc = "provision"]
         ELSE [req[r] EXCEPT !.pc = "handler", !.uid = UserIdOrNull(user)]]
  /\ UNCHANGED <<zone, users, projects, members, tasks, assignments, serial, started>>

\* clerk.users.getUser, then the insert of the new user: a failure of the
\* identity provider answers 401, an insert the store refuses answers 500
clerkAuthenticate_insert(r) ==
  /\ req[r].pc = "provision"
  /\ \E clerkDown \in BOOLEAN, fail \in BOOLEAN :
       IF clerkDown \/ fail
       THEN /\ req' = [req EXCEPT ![r] =
                 Failed(r, Respond(r, IF clerkDown THEN 401 ELSE 500))]
            /\ UNCHANGED <<users, serial>>
       ELSE IF EmailTaken(ClerkEmail(req[r].sub), 0)
       THEN /\ req' = [req EXCEPT ![r] = Respond(r, 500)]
            /\ UNCHANGED <<users, serial>>
       ELSE /\ serial.user <= MaxUsers
            /\ users' = users \cup
                 {[user_id |-> serial.user, clerk_user_id |-> req[r].sub,
                   email |-> ClerkEmail(req[r].sub)]}
            /\ serial' = [serial EXCEPT !.user = @ + 1]
            /\ req' = [req EXCEPT ![r] =
                 [req[r] EXCEPT !.pc = "handler", !.uid = serial.user]]
  /\ UNCHANGED <<zone, projects, members, tasks, assignments, started>>

\* createUser: the body is validated, the identity is looked up at the
\* provider, then users .eq("clerk_user_id", body.clerk_user_id).single()
createUser_existing(r) ==
  /\ req[r].h = "createUser" /\ req[r].pc = "handler"
  /\ \E clerkDown \in BOOLEAN :
       req' = [req EXCEPT ![r] =
         IF req[r].clerk = "" \/ req[r].raw[1] = <<>> THEN Respond(r, 400)
         ELSE IF clerkDown THEN Failed(r, Respond(r, 400))
         ELSE IF Single({u \in users : u.clerk_user_id = req[r].clerk}) # {}
              THEN Respond(r, 409)
         ELSE [req[r] EXCEPT !.pc = "insert"]]
  /\ UNCHANGED <<zone, users, projects, members, tasks, assignments, serial, started>>

createUser_insert(r) ==
  /\ req[r].h = "createUser" /\ req[r].pc = "insert"
  /\ \E fail \in BOOLEAN :
       IF fail
       THEN /\ req' = [req EXCEPT ![r] = Failed(r, Respond(r, 400))]
            /\ UNCHANGED <<users, serial>>
       ELSE IF EmailTaken(ToLowerCase(req[r].raw[1]), 0)
       THEN /\ req' = [req EXCEPT ![r] = Respond(r, 400)]
            /\ UNCHANGED <<users, serial>>
       ELSE /\ serial.user <= MaxUsers
            /\ users' = users \cup
                 {[user_id |-> serial.user, clerk_user_id |-> req[r].clerk,
                   email |-> ToLowerCase(req[r].raw[1])]}
            /\ serial' = [serial EXCEPT !.user = @ + 1]
            /\ req' = [req EXCEPT ![r] = Respond(r, 201)]
  /\ UNCHANGED <<zone, projects, members, tasks, assignments, started>>

\* updateUser: only the own profile; patch.email = body.email.toLowerCase()
updateUser_update(r) ==
  /\ req[r].h = "updateUser" /\ req[r].pc = "handler"
  /\ \E fail \in BOOLEAN :
       IF req[r].uid # req[r].target \/ ~req[r].hasRaw
       THEN /\ req' = [req EXCEPT ![r] =
                 Respond(r, IF req[r].uid # req[r].target THEN 403 ELSE 400)]
            /\ UNCHANGED users
       ELSE IF fail \/ ~\E u \in users : u.user_id = req[r].target
       THEN /\ req' = [req EXCEPT ![r] = Failed(r, Respond(r, 400))]
            /\ UNCHANGED users
       ELSE IF EmailTaken(ToLowerCase(req[r].raw[1]), req[r].target)
       THEN /\ req' = [req EXCEPT ![r] = Respond(r, 400)]
            /\ UNCHANGED users
       ELSE /\ users' = {IF u.user_id = req[r].target
                         THEN [u EXCEPT !.email = ToLowerCase(req[r].raw[1])]
                         ELSE u : u \in users}
            /\ req' = [req EXCEPT ![r] = Respond(r, 200)]
  /\ UNCHANGED <<zone, projects, members, tasks, assignments, serial, started>>

(***************************************************************************)
(* Specifications.                                                         *)
(***************************************************************************)
\* the handlers that add member rows
InviteRoutes(r, D) ==
  \/ createProject_start(r, D)
  \/ createProject_insertProject(r)
  \/ createProject_lookupUsers(r)
  \/ createProject_insertMembers(r)
  \/ createProject_inviter(r)
  \/ createProject_compensate(r)
  \/ addProjectMember_start(r, D)
  \/ addProjectMember_project(r)
  \/ addProjectMember_admin(r)
  \/ addProjectMember_existing(r)
  \/ addProjectMember_user(r)
  \/ addProjectMember_insert(r)
  \/ addProjectMember_inviter(r)
  \/ bulkAddProjectMembers_start(r, D)
  \/ bulkAddProjectMembers_project(r)
  \/ bulkAddProjectMembers_admin(r)
  \/ bulkAddProjectMembers_existing(r)
  \/ bulkAddProjectMembers_users(r)
  \/ bulkAddProjectMembers_insert(r)
  \/ bulkAddProjectMembers_inviter(r)
  \/ updateProject_start(r, D)
  \/ updateProject_project(r)
  \/ updateProject_memberCheck(r)
  \/ updateProject_update(r)
  \/ updateProject_existing(r)
  \/ updateProject_deleteMembers(r)
  \/ updateProject_lookupUsers(r)
  \/ updateProject_insertMembers(r)
  \/ sendProjectInviteEmail(r)

\* the other handlers of the projects and members routes
ManageRoutes(r, D) ==
  \/ updateProjectMember_start(r, D)
  \/ updateProjectMember_project(r)
  \/ updateProjectMember_admin(r)
  \/ updateProjectMember_member(r)
  \/ updateProjectMember_update(r)
  \/ removeProjectMember_start(r, D)
  \/ removeProjectMember_project(r)
  \/ removeProjectMember_admin(r)
  \/ removeProjectMember_member(r)
  \/ removeProjectMember_delete(r)
  \/ deleteProject_start(r, D)
  \/ deleteProject_fetch(r)
  \/ deleteProject_delete(r)

\* the handlers of the tasks routes that change the store
TaskRoutes(r, D) ==
  \/ createTask_start(r, D)
  \/ createTask_project(r)
  \/ createTask_insert(r)
  \/ createTask_assign(r)
  \/ updateTask_start(r, D)
  \/ updateTask_task(r)
  \/ updateTask_update(r)
  \/ updateTask_unassign(r)
  \/ updateTask_assign(r)
  \/ deleteTask_start(r, D)
  \/ deleteTask_task(r)
  \/ deleteTask_delete(r)
  \/ assignUserToTask_start(r, D)
  \/ assignUserToTask_task(r)
  \/ assignUserToTask_existing(r)
  \/ assignUserToTask_insert(r)
  \/ unassignUserFromTask_start(r, D)
  \/ unassignUserFromTask_task(r)
  \/ unassignUserFromTask_delete(r)

\* the dashboard requests
DashRoutes(r, D) ==
  \/ getDashboardData_start(r, D)
  \/ getDashboardData_owned(r)
  \/ getDashboardData_member(r)
  \/ getDashboardData_projects(r)
  \/ getDashboardData_members(r)
  \/ getDashboardData_usersByEmail(r)
  \/ getDashboardData_recentTasks(r)
  \/ getDashboardData_upcomingTasks(r)
  \/ getDashboardData_allTasks(r)

\* the calendar requests
CalRoutes(r, D) ==
  \/ getCalendarData_start(r, D)
  \/ getCalendarData_owned(r)
  \/ getCalendarData_member(r)
  \/ getCalendarData_assigned(r)
  \/ getCalendarData_tasks(r)

\* the handlers that only read
ReadRoutes(r, D) ==
  \/ getProjectById_start(r, D)
  \/ getProjectById_project(r)
  \/ listProjectMembers_start(r, D)
  \/ listProjectMembers_project(r)
  \/ listProjectMembers_members(r)
  \/ projectsController_listProjectMembers_start(r, D)
  \/ projectsController_listProjectMembers(r)
  \/ getTaskById_start(r, D)
  \/ getTaskById_task(r)
  \/ getTaskById_assignments(r)
  \/ listTaskAssignments_start(r, D)
  \/ listTaskAssignments_task(r)
  \/ listTaskAssignments_assignments(r)
  \/ listTasks_start(r, D)
  \/ listTasks_project(r)
  \/ listTasks_userProjects(r)
  \/ listTasks_ownedProjects(r)
  \/ listTasks_tasks(r)
  \/ DashRoutes(r, D)
  \/ CalRoutes(r, D)

\* Two requests at a time on the routes that add member rows.
Next == \E r \in Slots : InviteRoutes(r, RaceInputs)

Spec == Init /\ [][Next]_vars

\* One request at a time on every route.
NextSeq ==
  \/ InviteRoutes(1, Inputs)
  \/ ManageRoutes(1, Inputs)
  \/ TaskRoutes(1, Inputs)
  \/ ReadRoutes(1, Inputs)

SpecSeq == Init /\ [][NextSeq]_vars

(***************************************************************************)
(* The dashboard on a store that earlier requests have filled.             *)
(* Users are provisioned by clerkAuthenticate with the email of the        *)
(* identity provider as it is spelled; projects, member rows and tasks     *)
(* are the rows createProject, the member handlers and createTask insert.  *)
(* The server runs six hours west of UTC, in UTC or six hours east of it;  *)
(* user 1 is registered as a@x or as A@x, user 2 as b@x; the clock of a    *)
(* request reads 00:00 or 18:00 UTC of day Day0.                           *)
(***************************************************************************)
\* project 1 of user 1, with or without project 2 of user 2
ProjectTables(ends) ==
  {{[project_uuid |-> 1, owner_id |-> 1, start_date |-> e[1], end_date |-> e[2]]}
     \cup q :
     e \in ends,
     q \in {{}, {[project_uuid |-> 2, owner_id |-> 2,
                  start_date |-> Day0, end_date |-> Day0 + 1]}}}

\* the member rows an insert can write: the email lower-cased, the user id
\* that of the user the lookup found by that email, or null
MemberCandidates(us, ps) ==
  {c \in [project_uuid : {p.project_uuid : p \in ps}, user_id : Users \cup {NULL},
          member_email : {E("a"), E("b")}, role : {"viewer"}] :
     c.user_id # NULL =>
       \E u \in us : u.user_id = c.user_id /\ u.email = c.member_email}

\* up to two member rows, numbered as they were inserted, no email twice on
\* a project
MemberTables(cands) ==
  UNION {{{[id |-> i, project_uuid |-> row[i].project_uuid,
            user_id |-> row[i].user_id, member_email |-> row[i].member_email,
            role |-> row[i].role] : i \in 1..n} :
          row \in {f \in [1..n -> cands] :
                     \A i, j \in 1..n :
                       i < j => \/ f[i].project_uuid # f[j].project_uuid
                                \/ f[i].member_email # f[j].member_email}} :
         n \in 0..2}

\* task 1 of project 1 created yesterday, task 2 of project 1 created ten
\* days ago
TaskTables(dues) ==
  {a \cup b :
     a \in {{}} \cup {{[task_id |-> 1, project_uuid |-> 1, due_date |-> d,
                        created_at |-> (Day0 - 1) * TicksPerDay]} : d \in dues},
     b \in {{}, {[task_id |-> 2, project_uuid |-> 1, due_date |-> Day0 + 1,
                  created_at |-> (Day0 - 10) * TicksPerDay]}}}

InitDash ==
  /\ zone \in {-1, 0, 1}
  /\ users \in {{[user_id |-> 1, clerk_user_id |-> "c1", email |-> e],
                  [user_id |-> 2, clerk_user_id |-> "c2", email |-> E("b")]} :
                  e \in {E("a"), E("A")}}
  /\ projects \in ProjectTables({<<Day0 - 3, Day0 - 1>>, <<Day0 - 3, Day0>>})
  /\ members \in MemberTables(MemberCandidates(users, projects))
  /\ tasks \in TaskTables({NULL, Day0, Day0 + 14})
  /\ assignments = {}
  /\ serial = [project |-> Cardinality(projects) + 1,
               member |-> Cardinality(members) + 1,
               task |-> MaxTasks + 1, assign |-> 1, user |-> 3]
  /\ req = [r \in Slots |-> Idle]
  /\ started = MaxRequests - 1

SpecDash ==
  /\ InitDash
  /\ [][DashRoutes(1, [Inputs EXCEPT
                         !.clocks = {Day0 * TicksPerDay, Day0 * TicksPerDay + 3}])]_vars

(***************************************************************************)
(* The calendar on a store that earlier requests have filled, the member   *)
(* rows being those of registered users; a request has no date range or    *)
(* the range from Day0 to Day0 + 2.                                        *)
(***************************************************************************)
\* Two requests at a time on the handlers that insert task assignments, on
\* a store that holds a project of user 1 with user 2 as a member and a task.
AssignRoutes(r, D) ==
  \/ createTask_start(r, D)
  \/ createTask_project(r)
  \/ createTask_insert(r)
  \/ createTask_assign(r)
  \/ updateTask_start(r, D)
  \/ updateTask_task(r)
  \/ updateTask_update(r)
  \/ updateTask_unassign(r)
  \/ updateTask_assign(r)
  \/ assignUserToTask_start(r, D)
  \/ assignUserToTask_task(r)
  \/ assignUserToTask_existing(r)
  \/ assignUserToTask_insert(r)

InitAssign ==
  /\ zone = 0
  /\ users = {[user_id |-> 1, clerk_user_id |-> "c1", email |-> E("a")],
              [user_id |-> 2, clerk_user_id |-> "c2", email |-> E("b")]}
  /\ projects = {[project_uuid |-> 1, owner_id |-> 1, start_date |-> Day0,
                  end_date |-> Day0]}
  /\ members = {[id |-> 1, project_uuid |-> 1, user_id |-> 2,
                 member_email |-> E("b"), role |-> "editor"]}
  /\ tasks = {[task_id |-> 1, project_uuid |-> 1, due_date |-> Day0,
               created_at |-> Day0 * TicksPerDay]}
  /\ assignments = {}
  /\ serial = [project |-> 2, member |-> 2, task |-> 2, assign |-> 1, user |-> 3]
  /\ req = [r \in Slots |-> Idle]
  /\ started = 0

SpecAssign ==
  InitAssign /\
  [][\E r \in Slots :
       AssignRoutes(r, [RaceInputs EXCEPT !.assignees = {<<2>>, <<1, 1>>}])]_vars

\* Two requests at a time on the users routes, on a store without users.
UserRoutes(r) ==
  \/ clerkAuthenticate_start(r)
  \/ clerkAuthenticate_user(r)
  \/ clerkAuthenticate_insert(r)
  \/ createUser_existing(r)
  \/ createUser_insert(r)
  \/ updateUser_update(r)

InitUsers ==
  /\ zone = 0
  /\ users = {}
  /\ projects = {}
  /\ members = {}
  /\ tasks = {}
  /\ assignments = {}
  /\ serial = [project |-> 1, member |-> 1, task |-> 1, assign |-> 1, user |-> 1]
  /\ req = [r \in Slots |-> Idle]
  /\ started = 0

SpecUsers == InitUsers /\ [][\E r \in Slots : UserRoutes(r)]_vars

\* up to two assignments of the tasks to users, numbered as they were inserted
AssignmentTables(ts) ==
  UNION {{{[id |-> i, task_id |-> row[i][1], user_id |-> row[i][2]] : i \in 1..n} :
          row \in {f \in [1..n -> {t.task_id : t \in ts} \X Users] :
                     \A i, j \in 1..n : i < j => f[i] # f[j]}} :
         n \in 0..MaxAssignments}

InitCal ==
  /\ zone = 0
  /\ users = {[user_id |-> 1, clerk_user_id |-> "c1", email |-> E("a")],
              [user_id |-> 2, clerk_user_id |-> "c2", email |-> E("b")]}
  /\ projects \in ProjectTables({<<Day0 - 3, Day0 - 1>>, <<Day0 - 1, Day0 + 1>>})
  /\ members \in MemberTables({c \in MemberCandidates(users, projects) :
                                 c.user_id # NULL})
  /\ tasks \in TaskTables({NULL, Day0 - 1, Day0 + 1})
  /\ assignments \in AssignmentTables(tasks)
  /\ serial = [project |-> Cardinality(projects) + 1,
               member |-> Cardinality(members) + 1,
               task |-> MaxTasks + 1, assign |-> Cardinality(assignments) + 1,
               user |-> 3]
  /\ req = [r \in Slots |-> Idle]
  /\ started = MaxRequests - 1

SpecCal ==
  /\ InitCal
  /\ [][CalRoutes(1, [Inputs EXCEPT !.ranges = {<<>>, <<Day0, Day0 + 2>>}])]_vars

\* One request to a handler that answers with tasks: listTasks, the
\* dashboard or the calendar, on the stores of the calendar runs.
TaskViewRoutes(r, D) ==
  \/ listTasks_start(r, D)
  \/ listTasks_project(r)
  \/ listTasks_userProjects(r)
  \/ listTasks_ownedProjects(r)
  \/ listTasks_tasks(r)
  \/ DashRoutes(r, D)
  \/ CalRoutes(r, D)

SpecTaskViews ==
  /\ InitCal
  /\ [][TaskViewRoutes(1, [Inputs EXCEPT !.ranges = {<<>>, <<Day0, Day0 + 2>>}])]_vars

(***************************************************************************)
(* Properties.                                                             *)
(***************************************************************************)
ProjectScoped == {"getProjectById", "listTasks", "createTask", "listProjectMembers"}

TaskScoped ==
  {"getTaskById", "updateTask", "deleteTask", "listTaskAssignments",
   "assignUserToTask", "unassignUserFromTask"}

\* the project row a request is about: the one of its task, or the one it names
TargetProject(r) ==
  IF req[r].h \in TaskScoped
  THEN {p \in projects :
          \E t \in tasks : t.task_id = req[r].t /\ t.project_uuid = p.project_uuid}
  ELSE {p \in projects : p.project_uuid = req[r].p}

OwnsTarget(r) == \E p \in TargetProject(r) : p.owner_id = req[r].uid

MemberOfTarget(r) ==
  \E p \in TargetProject(r) :
    \E m \in members : m.project_uuid = p.project_uuid /\ m.user_id = req[r].uid

\* the request was answered, no store call of it failed, its body was valid
Answered(r) == req[r].pc = "done" /\ req[r].err = "" /\ req[r].status # 400

\* C1: on getProjectById, listTasks with a projectUuid, createTask,
\* getTaskById, updateTask, deleteTask and the task-assignment handlers, a
\* caller who is neither the owner of the existing project nor on a member
\* row of it by user_id is answered 403.
C1_DeniedAnswers403 ==
  \A r \in Slots :
    ( /\ req[r].h \in (ProjectScoped \cup TaskScoped) \ {"listProjectMembers"}
      /\ Answered(r)
      /\ TargetProject(r) # {}
      /\ ~OwnsTarget(r)
      /\ ~MemberOfTarget(r) )
    => req[r].status = 403

NoDuplicates(s) == \A i, j \in 1..Len(s) : s[i] = s[j] => i = j

\* the projects a user owns or is on a member row of by user_id
VisibleTo(userId) ==
  {p.project_uuid : p \in {x \in projects : x.owner_id = userId}}
  \cup {m.project_uuid : m \in {x \in members : x.user_id = userId}}

\* C2: the visibility set of getDashboardData, getCalendarData and listTasks
\* holds each project uuid at most once, and totalProjects of the dashboard
\* and of the calendar summary is the number of distinct visible projects,
\* also for a user who owns a project and is on a member row of it.
C2_VisibilityDeduplicated ==
  \A r \in Slots :
    req[r].h \in {"getDashboardData", "getCalendarData", "listTasks"} =>
      /\ NoDuplicates(req[r].vis)
      /\ (req[r].err = "" /\ req[r].vis # <<>> /\ req[r].p = 0)
           => Range(req[r].vis) = VisibleTo(req[r].uid)
      /\ (req[r].h # "listTasks" /\ Answered(r) /\ req[r].status = 200)
           => req[r].total = Cardinality(VisibleTo(req[r].uid))

\* a dashboard answered for a user who owns a project and is a member of it
C2_Witness ==
  \E r \in Slots :
    /\ req[r].h = "getDashboardData" /\ Answered(r) /\ req[r].status = 200
    /\ req[r].total = 1
    /\ \E p \in projects :
         /\ p.owner_id = req[r].uid
         /\ \E m \in members :
              m.project_uuid = p.project_uuid /\ m.user_id = req[r].uid

\* C3: the owner of an existing project is never answered 403 or 404 by
\* listTasks for the project, createTask, getTaskById, updateTask, deleteTask,
\* the task-assignment handlers and the member listing of the members
\* controller.
C3_OwnerGranted ==
  \A r \in Slots :
    ( /\ req[r].h \in (ProjectScoped \cup TaskScoped) \ {"getProjectById"}
      /\ Answered(r)
      /\ OwnsTarget(r) )
    => req[r].status \notin {403, 404}

\* the step is one of request r
StepOf(r) == req'[r] # req[r]

\* the requested projects that are in the store
FoundForDelete(r) ==
  {p \in projects :
     p.project_uuid \in (IF req[r].uuids # {} THEN req[r].uuids ELSE {req[r].p})}

\* C4: deleteProject: when a requested project found in the store is not the
\* requester's, the answer is 403 and no project is deleted, the requester's
\* own ones included; projects are deleted only when every found project is
\* the requester's.
C4_BulkDeleteAllOrNothing ==
  [][\A r \in Slots :
       (req[r].h = "deleteProject" /\ StepOf(r)) =>
         /\ ( /\ req[r].pc = "fetch"
              /\ req'[r].err = ""
              /\ \E p \in FoundForDelete(r) : p.owner_id # req[r].uid )
            => /\ req'[r].pc = "done" /\ req'[r].status = 403
               /\ projects' = projects
         /\ projects' # projects
            => \A p \in FoundForDelete(r) : p.owner_id = req[r].uid]_vars

\* a bulk delete naming an own and a foreign project was answered 403 and
\* both projects are still there
C4_Witness ==
  \E r \in Slots :
    /\ req[r].h = "deleteProject" /\ req[r].pc = "done" /\ req[r].status = 403
    /\ \E p, q \in FoundForDelete(r) :
         /\ p.owner_id = req[r].uid /\ q.owner_id # req[r].uid
         /\ {p.project_uuid, q.project_uuid} \subseteq req[r].uuids

\* the requester owns the project or is on a member row of it as admin or owner
MayManageMembers(r) ==
  \/ \E p \in projects : p.project_uuid = req[r].p /\ p.owner_id = req[r].uid
  \/ \E m \in members :
       /\ m.project_uuid = req[r].p /\ m.user_id = req[r].uid
       /\ m.role \in {"admin", "owner"}

\* C5: updateProjectMember and removeProjectMember change or delete a member
\* row only for the project's owner or a member with role admin or owner;
\* any other requester whose permission reads met no store error is answered
\* 403 and the member rows stay as they are.
C5_MemberChangesNeedAdmin ==
  [][\A r \in Slots :
       (req[r].h \in {"updateProjectMember", "removeProjectMember"} /\ StepOf(r)) =>
         /\ members' # members => MayManageMembers(r)
         /\ ( /\ ~MayManageMembers(r)
              /\ req[r].pc # "done" /\ req'[r].pc = "done" /\ req'[r].err = ""
              /\ \E p \in projects : p.project_uuid = req[r].p
              /\ req[r].h = "updateProjectMember" => req[r].role # "" )
            => req'[r].status = 403 /\ members' = members]_vars

\* an editor or viewer of the project asked for a change of an existing
\* member row and was answered 403
C5_Witness ==
  \E r \in Slots :
    /\ req[r].h \in {"updateProjectMember", "removeProjectMember"}
    /\ req[r].pc = "done" /\ req[r].status = 403
    /\ \E m \in members :
         /\ m.project_uuid = req[r].p /\ m.user_id = req[r].uid
         /\ m.role \in {"editor", "viewer"}
    /\ \E m \in members : m.project_uuid = req[r].p /\ m.id = req[r].mid

\* C6: no project has two member rows with the same member_email.
C6_UniqueMemberEmail ==
  \A m1, m2 \in members :
    (m1.project_uuid = m2.project_uuid /\ m1.member_email = m2.member_email)
      => m1 = m2

\* C7: addProjectMember: when its existence check runs on a project that has
\* a member row with the trimmed, lower-cased submitted email, the request is
\* answered 409 there and inserts no row.
C7_DuplicateAnswers409 ==
  [][\A r \in Slots :
       ( /\ req[r].h = "addProjectMember" /\ StepOf(r)
         /\ req[r].pc = "existing"
         /\ \E m \in members :
              /\ m.project_uuid = req[r].p
              /\ m.member_email = NormalizeEmail(req[r].raw[1]) )
       => req'[r].pc = "done" /\ req'[r].status = 409]_vars

\* the non-empty trimmed, lower-cased emails of the body, as a set
WantedEmails(r) ==
  {NormalizeEmail(req[r].raw[i]) : i \in 1..Len(req[r].raw)} \ {<<>>}

PresentEmails(r) == {m.member_email : m \in {x \in members : x.project_uuid = req[r].p}}

Authorizing ==
  {"addProjectMember", "updateProjectMember", "removeProjectMember",
   "bulkAddProjectMembers", "updateProject", "deleteProject", "createTask",
   "updateTask", "deleteTask", "assignUserToTask", "unassignUserFromTask",
   "getProjectById", "listProjectMembers", "getTaskById", "listTaskAssignments"}

store == <<projects, members, tasks, assignments>>

\* C9: a handler with an authorization check changes the store only after
\* the check has granted the request; a request that was denied or whose
\* project or task was not found has ended and changes nothing.
C9_NoMutationBeforeGrant ==
  [][\A r \in Slots :
       (req[r].h \in Authorizing /\ StepOf(r)) =>
         /\ store' # store => req[r].auth = "granted"
         /\ req'[r].auth \in {"denied", "notfound"}
            => req'[r].pc = "done" /\ store' = store]_vars

\* a member was removed by a granted request, and a task was deleted by one
C9_Witness ==
  \E r \in Slots :
    /\ req[r].h \in {"removeProjectMember", "deleteTask"}
    /\ req[r].pc = "done" /\ req[r].status = 200 /\ req[r].auth = "granted"
    /\ req[r].h = "removeProjectMember" => ~\E m \in members : m.id = req[r].mid
    /\ req[r].h = "deleteTask" => ~\E t \in tasks : t.task_id = req[r].t

\* createProject answered an error after it had inserted its project row
CreateProjectError(r) ==
  /\ req[r].h = "createProject" /\ req[r].pc = "done"
  /\ req[r].status # 201 /\ req[r].newp # 0

Inviting == {"addProjectMember", "bulkAddProjectMembers", "createProject", "updateProject"}

\* the request has had an invitation delivered or lost in this step
MailSettled(r) ==
  /\ req[r].h \in Inviting
  /\ \E e \in req[r].invite :
       /\ e \notin req[r].sent \cup req[r].bounced
       /\ e \in req'[r].sent \cup req'[r].bounced

\* C11: for addProjectMember, bulkAddProjectMembers, createProject and
\* updateProject the response is decided before any invitation is settled,
\* and a send that is delivered or that fails leaves the HTTP status of the
\* request and every row of the store as they were: a mail failure never
\* makes a successful request an error and never undoes inserted rows.
C11_MailNeverChangesOutcome ==
  [][\A r \in Slots :
       MailSettled(r) =>
         /\ req[r].pc = "done" /\ req'[r].pc = "done"
         /\ req[r].status \in {200, 201}
         /\ req'[r].status = req[r].status
         /\ store' = store /\ users' = users]_vars

\* a request answered 201 whose invitation bounced, its member row kept
C11_Witness ==
  \E r \in Slots :
    /\ req[r].h \in {"addProjectMember", "bulkAddProjectMembers", "createProject"}
    /\ req[r].pc = "done" /\ req[r].status = 201
    /\ req[r].bounced # {}
    /\ \A e \in req[r].bounced :
         \E m \in members : ToLowerCase(m.member_email) = ToLowerCase(e)

\* the upcomingDeadlines of a dashboard request, once they are fetched
UpcomingOf(r) == IF req[r].h = "getDashboardData" THEN req[r].upcoming ELSE <<>>

\* C12: every task of the dashboard's upcomingDeadlines has a due_date that
\* is not null and lies between today and today + 14 days, today being the
\* calendar day of the server in its own zone; the list is in ascending
\* order of due_date and has at most 10 entries.
C12_UpcomingWithinWindow ==
  \A r \in Slots :
    LET up == UpcomingOf(r)
        today == LocalDay(req[r].now)
    IN /\ Len(up) <= 10
       /\ \A i \in 1..Len(up) :
            /\ up[i].due_date # NULL
            /\ today <= up[i].due_date /\ up[i].due_date <= today + 14
       /\ \A i, j \in 1..Len(up) : i < j => up[i].due_date <= up[j].due_date

\* a dashboard request answered with its figures, no store call failed
DashboardAnswered(r) ==
  /\ req[r].h = "getDashboardData" /\ req[r].pc = "done"
  /\ req[r].status = 200 /\ req[r].err = ""

VisibleProjects(userId) == {p \in projects : p.project_uuid \in VisibleTo(userId)}

\* C13: completedProjects is the number of visible projects whose end_date,
\* as a calendar date, is before today, the calendar day of the server; a
\* project that ends today or later is not counted.
C13_CompletedBeforeToday ==
  \A r \in Slots :
    DashboardAnswered(r) =>
      req[r].completed =
        Cardinality({p \in VisibleProjects(req[r].uid) :
                       p.end_date < LocalDay(req[r].now)})

VisibleMembers(userId) == {m \in members : m.project_uuid \in VisibleTo(userId)}

\* the users whose email is an invited email of the rows, whatever the case
RegisteredAmong(rows) ==
  {u \in users : \E m \in rows : ToLowerCase(u.email) = ToLowerCase(m.member_email)}

\* the owners and member user ids of what the user sees, and the users that
\* an invited email belongs to
KnownUserIds(userId) ==
  {p.owner_id : p \in VisibleProjects(userId)}
  \cup {m.user_id : m \in {x \in VisibleMembers(userId) : x.user_id # NULL}}
  \cup {u.user_id : u \in RegisteredAmong(VisibleMembers(userId))}

\* the invited emails that belong to no user
UnregisteredEmails(userId) ==
  {ToLowerCase(m.member_email) : m \in VisibleMembers(userId)}
  \ {ToLowerCase(u.email) : u \in users}

\* C14: totalTeamMembers is the number of known user ids plus the number of
\* member emails with no registered user, a user's email matching an invited
\* email whatever its case: a registered user who is also invited by email
\* is counted once.
C14_TeamCountsPersonOnce ==
  \A r \in Slots :
    DashboardAnswered(r) =>
      req[r].team = Cardinality(KnownUserIds(req[r].uid))
                    + Cardinality(UnregisteredEmails(req[r].uid))

\* the team size of the dashboard of a user over the given member rows
DashboardTeam(userId, rows) ==
  TeamSize(VisibleProjects(userId),
           {m \in rows : m.project_uuid \in VisibleTo(userId)})

\* the member rows that can be added to a visible project: an email the
\* project does not have yet, with the id of the user of that email or null
NewMemberRows(userId) ==
  {c \in [id : {serial.member}, project_uuid : VisibleTo(userId),
          user_id : Users \cup {NULL}, member_email : {E("a"), E("b"), E("c")},
          role : {"viewer"}] :
     /\ c.member_email \notin MemberEmailsOf(c.project_uuid)
     /\ c.user_id # NULL =>
          \E u \in users : u.user_id = c.user_id /\ u.email = c.member_email}

\* C15: with the users and the visible projects as they are, the dashboard's
\* totalTeamMembers is not less after a member row with a new email, resolved
\* to a user or not, is added to a visible project.
C15_TeamSizeMonotone ==
  \A r \in Slots :
    DashboardAnswered(r) =>
      /\ req[r].team = DashboardTeam(req[r].uid, members)
      /\ \A c \in NewMemberRows(req[r].uid) :
           DashboardTeam(req[r].uid, members \cup {c}) >= req[r].team

\* a dashboard answered with a team of invited and registered people, one
\* more row leaving the count in one case and raising it in another
C15_Witness ==
  \E r \in Slots :
    /\ DashboardAnswered(r) /\ req[r].team >= 2
    /\ req[r].mails # {}
    /\ \E c \in NewMemberRows(req[r].uid) :
         DashboardTeam(req[r].uid, members \cup {c}) = req[r].team
    /\ \E c \in NewMemberRows(req[r].uid) :
         DashboardTeam(req[r].uid, members \cup {c}) > req[r].team

\* the projects with a member row without user id whose member_email is the
\* registered email of the user
InvitedByEmail(userId) ==
  {m.project_uuid :
     m \in {x \in members :
              /\ x.user_id = NULL
              /\ \E u \in users : u.user_id = userId /\ u.email = x.member_email}}

OwnedBy(userId) == {p.project_uuid : p \in {x \in projects : x.owner_id = userId}}

\* the people of the given projects: owners, members and invited emails, a
\* user and an invited email of theirs being one person
PeopleOn(uuids) ==
  LET rows == {m \in members : m.project_uuid \in uuids}
      ids == {p.owner_id : p \in {x \in projects : x.project_uuid \in uuids}}
             \cup {m.user_id : m \in {x \in rows : x.user_id # NULL}}
             \cup {u.user_id : u \in RegisteredAmong(rows)}
      emails == {ToLowerCase(m.member_email) : m \in rows}
                \ {ToLowerCase(u.email) : u \in users}
  IN Cardinality(ids) + Cardinality(emails)

\* C16: for a user who owns a project and was invited to another one by the
\* email they later registered with (member row without user id), the
\* dashboard counts the owned and the invited projects in totalProjects and
\* counts the user once in totalTeamMembers.
C16_InvitedProjectCounted ==
  \A r \in Slots :
    ( /\ DashboardAnswered(r)
      /\ OwnedBy(req[r].uid) # {}
      /\ InvitedByEmail(req[r].uid) \ OwnedBy(req[r].uid) # {} )
    => LET expected == VisibleTo(req[r].uid) \cup InvitedByEmail(req[r].uid)
       IN /\ req[r].total = Cardinality(expected)
          /\ req[r].team = PeopleOn(expected)

\* a calendar request answered with its lists, no store call failed
CalendarAnswered(r) ==
  /\ req[r].h = "getCalendarData" /\ req[r].pc = "done"
  /\ req[r].status = 200 /\ req[r].err = ""

\* the tasks that are assigned to the user and are also among the tasks
\* fetched for the projects of the answer
AssignedAndFetched(r) ==
  {t \in Range(ProjectTasks(Range(req[r].vis), req[r].range)) :
     \E a \in assignments : a.task_id = t.task_id /\ a.user_id = req[r].uid}

\* C17: the tasks of a calendar answer hold each task_id once; a task that
\* is assigned to the requester and is also returned by the fetch of the
\* project tasks is there as the assigned entry; summary.totalTasks is the
\* number of distinct task ids.
C17_TasksOnceAssignedWins ==
  \A r \in Slots :
    CalendarAnswered(r) =>
      LET ts == req[r].cal IN
      /\ \A i, j \in 1..Len(ts) : ts[i].task_id = ts[j].task_id => i = j
      /\ \A t \in AssignedAndFetched(r) :
           \E i \in 1..Len(ts) : ts[i].task_id = t.task_id /\ ts[i].isAssigned
      /\ req[r].summary.totalTasks = Cardinality({ts[i].task_id : i \in 1..Len(ts)})

\* an answer with an assigned task that the project fetch returned as well,
\* next to a task that is not assigned
C17_Witness ==
  \E r \in Slots :
    /\ CalendarAnswered(r)
    /\ AssignedAndFetched(r) # {}
    /\ \E i \in 1..Len(req[r].cal) : ~req[r].cal[i].isAssigned
    /\ \E i \in 1..Len(req[r].cal) : req[r].cal[i].isAssigned

\* C18: the projects of a calendar answer hold each project_uuid once, and
\* a project that the requester owns and also has a member row on is there
\* as the owned entry, with role "owner" and isOwner true.
C18_ProjectsOnceOwnerWins ==
  \A r \in Slots :
    CalendarAnswered(r) =>
      LET ps == req[r].projs IN
      /\ \A i, j \in 1..Len(ps) : ps[i].project_uuid = ps[j].project_uuid => i = j
      /\ \A i \in 1..Len(ps) :
           ( /\ ps[i].project_uuid \in OwnedBy(req[r].uid)
             /\ \E m \in members : /\ m.project_uuid = ps[i].project_uuid
                                    /\ m.user_id = req[r].uid )
           => ps[i].isOwner /\ ps[i].role = "owner"

\* C19: with start_date and end_date in the query, every project of the
\* calendar answer overlaps the range, and every task of the answer that is
\* not an assigned entry has a due_date in the range.
C19_AnswerWithinRange ==
  \A r \in Slots :
    (CalendarAnswered(r) /\ req[r].range # <<>>) =>
      /\ \A i \in 1..Len(req[r].projs) :
           /\ req[r].projs[i].end_date >= req[r].range[1]
           /\ req[r].projs[i].start_date <= req[r].range[2]
      /\ \A i \in 1..Len(req[r].cal) :
           ~req[r].cal[i].isAssigned =>
             /\ req[r].cal[i].due_date # NULL
             /\ req[r].cal[i].due_date >= req[r].range[1]
             /\ req[r].cal[i].due_date <= req[r].range[2]

\* the step in which an aggregation handler has read the user's owned
\* projects and member rows, without a failed store call
VisibilityRead(r) ==
  /\ req[r].h \in {"getDashboardData", "getCalendarData"}
  /\ req[r].pc = "member" /\ req'[r].pc # "member"
  /\ req'[r].err = ""

Dispatched(r) == req[r].invite \cup req[r].sent \cup req[r].bounced

\* the emails a finished addProjectMember or bulkAddProjectMembers inserted
InsertedEmails(r) ==
  IF req[r].h = "addProjectMember" THEN {MemberEmail(r)} ELSE Range(req[r].fresh)

\* the emails of request r that its own user lookup resolved to a user row
ResolvedByLookup(r) ==
  {e \in InsertedEmails(r) : \E u \in req[r].found : ToLowerCase(u.email) = e}

\* C21: when addProjectMember or bulkAddProjectMembers has answered 201, an
\* invitation was dispatched exactly to the inserted emails that the user
\* lookup of the same request did not resolve; an email that resolved has a
\* member row carrying the found user_id and no invitation, an unresolved one
\* a row without user_id; and the emailsSent of the bulk answer is the number
\* of inserted emails that did not resolve.
C21_InviteOnlyUnresolved ==
  \A r \in Slots :
    (/\ req[r].h \in {"addProjectMember", "bulkAddProjectMembers"}
     /\ req[r].pc = "done" /\ req[r].status = 201) =>
      /\ Dispatched(r) = InsertedEmails(r) \ ResolvedByLookup(r)
      /\ \A e \in InsertedEmails(r) :
           /\ \E m \in MembersOf(req[r].p) : m.member_email = e
           /\ \A m \in MembersOf(req[r].p) :
                m.member_email = e =>
                  IF e \in ResolvedByLookup(r)
                  THEN \E u \in req[r].found :
                         ToLowerCase(u.email) = e /\ m.user_id = u.user_id
                  ELSE m.user_id = NULL
      /\ req[r].h = "bulkAddProjectMembers" =>
           req[r].emailsSent = Cardinality(InsertedEmails(r) \ ResolvedByLookup(r))

\* a bulk add answered 201 that inserted one email of a registered user and
\* one of nobody, and dispatched one invitation
C21_Witness ==
  \E r \in Slots :
    /\ req[r].h = "bulkAddProjectMembers"
    /\ req[r].pc = "done" /\ req[r].status = 201
    /\ ResolvedByLookup(r) # {}
    /\ InsertedEmails(r) \ ResolvedByLookup(r) # {}
    /\ req[r].emailsSent = 1

\* C22: a request whose authorization fetch (the project read, the role
\* lookup, or the task read with its project) returned a store error is
\* answered neither 404 not-found nor 403 denied.
C22_StoreErrorNeverNotFoundOrDenied ==
  \A r \in Slots :
    (/\ req[r].pc = "done"
     /\ req[r].h \in {"createTask", "addProjectMember", "getProjectById"}
     /\ req[r].err \in {"project", "admin"}) =>
      req[r].status \notin {403, 404}

\* the (task_id, user_id) pair is in task_assignments
Assigned(taskId, userId) ==
  \E a \in assignments : a.task_id = taskId /\ a.user_id = userId

C24_OneRowPerIdentity ==
  /\ \A u, v \in users : u.clerk_user_id = v.clerk_user_id => u = v
  /\ \A r \in Slots :
       (req[r].pc = "done" /\ req[r].sub # "" /\ req[r].err = "") =>
         /\ req[r].uid # 0
         /\ \E u \in users : u.clerk_user_id = req[r].sub

\* C27: every row of users holds its email in lower case, and the email of
\* a member row that carries a user_id is, lower-cased, the email of that
\* user.
C27_UserEmailsLowerCase ==
  /\ \A u \in users : u.email = ToLowerCase(u.email)
  /\ \A m \in members :
       m.user_id # NULL =>
         \E u \in users :
           u.user_id = m.user_id /\ u.email = ToLowerCase(m.member_email)

\* C26: GET /projects/:projectId/members answers with the member list only
\* for a requester who owns the project or has a member row with their
\* user_id on it; any other user is answered 403 and gets no member data.
C26_MemberListOnlyForVisible ==
  \A r \in Slots :
    (/\ req[r].h = "projectsController.listProjectMembers"
     /\ req[r].pc = "done" /\ req[r].err = ""
     /\ req[r].p \notin VisibleTo(req[r].uid)) =>
      req[r].status = 403 /\ req[r].out = {}

\* the user owns the project or has a member row on it with role admin or
\* owner
MayManage(userId, uuid) ==
  \/ \E p \in projects : p.project_uuid = uuid /\ p.owner_id = userId
  \/ \E m \in members :
       /\ m.project_uuid = uuid /\ m.user_id = userId
       /\ m.role \in {"admin", "owner"}

\* C25: whatever the requests, a step of a request that deletes a member row
\* of a project or changes its role is a step of a requester who owns the
\* project or is a member of it with role admin or owner; updateProject with
\* memberEmails sent by an editor or viewer is included.
C25_OnlyManagersChangeMembers ==
  [][\A r \in Slots :
       req'[r] # req[r] =>
         \A m \in members :
           m \notin members' => MayManage(req[r].uid, m.project_uuid)]_vars

\* the ids of the tasks an answered request returned
ReturnedTasks(r) ==
  IF req[r].h = "listTasks" THEN req[r].out
  ELSE IF req[r].h = "getDashboardData"
       THEN {t.task_id : t \in Range(req[r].recent) \cup Range(req[r].upcoming)}
  ELSE {t.task_id : t \in Range(req[r].cal)}

\* C28: every task that listTasks (with or without project filter), the
\* dashboard's recentTasks and upcomingDeadlines, or the calendar returns to
\* a user is a task of a project the user owns or is on by a member row
\* with their user_id; a task assigned to the user in a project the user
\* cannot see is not returned.
C28_TasksOnlyFromVisibleProjects ==
  \A r \in Slots :
    (/\ req[r].h \in {"listTasks", "getDashboardData", "getCalendarData"}
     /\ req[r].pc = "done" /\ req[r].status = 200) =>
      \A id \in ReturnedTasks(r) :
        \E t \in tasks :
          t.task_id = id /\ t.project_uuid \in VisibleTo(req[r].uid)

\* a calendar answered, after its task queries, for a user who is assigned
\* to a task of a project that is not visible to them
C28_Witness ==
  \E r \in Slots :
    /\ CalendarAnswered(r) /\ req[r].vis # <<>>
    /\ \E a \in assignments :
         /\ a.user_id = req[r].uid
         /\ \E t \in tasks :
              t.task_id = a.task_id /\ t.project_uuid \notin VisibleTo(req[r].uid)

\* C29: when updateProject with a memberEmails body has answered with an
\* error, the member rows of the project (emails, user ids and roles) are
\* the ones it had when the request arrived.
C29_MembersKeptOnError ==
  \A r \in Slots :
    (/\ req[r].h = "updateProject" /\ req[r].hasRaw
     /\ req[r].pc = "done" /\ req[r].status >= 400) =>
      MembersOf(req[r].p) = req[r].before

\* C30: every project row that createProject inserts has the authenticated
\* requester as its owner_id, whatever the request body carries.
C30_CreatedProjectOwnedByRequester ==
  [][\A r \in Slots :
       (req[r].h = "createProject" /\ StepOf(r)) =>
         \A p \in projects' \ projects : p.owner_id = req[r].uid]_vars

====
